---- MODULE Spec2Model ----
(***************************************************************************)
(* Playback structures of webchalk: the commit of a sequence's clips into  *)
(* groupings and start times, the forward and backward run of a sequence   *)
(* over its clips, its pause / unpause / finish, and the stepping /        *)
(* jumping / structure operations of a timeline, the parent pointers of    *)
(* clips and sequences, and the status flags of a clip.                    *)
(*                                                                         *)
(* The module holds these state machines over one set of variables:        *)
(*   SpecCommit   addClips and commit of one sequence                      *)
(*   SpecSeq      AnimSequence.play over the clips' host animations        *)
(*   SpecRun      AnimSequence.play and rewind                             *)
(*   SpecCtl      a forward run under pause, unpause, finish, roadblocks   *)
(*                and a throwing hook (LiveCtl: with fair progress)        *)
(*   Spec         AnimTimeline: step, jumpTo, pause, skipping,             *)
(*                add/remove sequences                                     *)
(*   SpecJump     one jumpToSequenceTag / jumpToPosition from any loaded   *)
(*                index of a timeline of tagged sequences, then steps      *)
(*   SpecTagJump  the same with jumpToSequenceTag only                     *)
(*   SpecRoundTrip  step('forward'), then step('backward')                 *)
(*   SpecClipLineage      addClips / addClipsAt / addSequences             *)
(*   SpecSequenceLineage  add / remove sequences of timelines              *)
(*   SpecClip     one AnimClip: play, rewind, pause, unpause, finish,      *)
(*                hooks and phases                                         *)
(*   SpecReject   SpecJump with the run of a sequence rejecting            *)
(*   SpecDirect   SpecJump with play / rewind / finish called directly on  *)
(*                the sequences of the timeline                            *)
(*   SpecReaction SpecCtl with pause() called from promise reactions       *)
(*   LiveRun      SpecRun over more clip timings, with fair progress       *)
(* Each machine pins the variables of the others.                          *)
(***************************************************************************)
EXTENDS Integers, Sequences, FiniteSets, TLC

VARIABLES
    animClips,       \* AnimSequence.animClips: the clips' configurations, insertion order
    fullStartTime,   \* AnimClip.fullStartTime of every clip (NaN until committed)
    groupings,       \* the four grouping lists commit() leaves on the sequence
    seqStatus,       \* AnimSequence status flags
    inProgressClips, \* AnimSequence.inProgressClips (clip indices)
    clipPos,         \* where each clip's host animation stands in the current run
    integrityBlocks, \* per clip: the clips whose end of active phase it awaits
    playPc,          \* where the pending AnimSequence.play() call is suspended
    toldToFinish,    \* the clips whose AnimClip.finish() the last finish() call has called
    finishReturned,  \* what the last finish() call returned; flip changes at every call
    roadblocks,      \* the clips whose roadblock awaits a promise still pending, or resolved
    hooks,           \* the clips whose onActiveFinish hook throws, and those whose promise rejected
    animSequences,       \* AnimTimeline.animSequences: the sequences, each with its status
    loadedSeqIndex,      \* AnimTimeline.loadedSeqIndex (0-based, as in the code)
    inProgressSequences, \* AnimTimeline.inProgressSequences (indices into animSequences)
    isAnimating,         \* AnimTimeline.isAnimating
    isJumping,           \* AnimTimeline.isJumping
    isPaused,            \* AnimTimeline.isPaused
    skippingOn,          \* AnimTimeline.skippingOn
    stepCall,            \* the pending step() call and the await it is suspended at
    jumpCall,            \* the pending jumpTo() call and the await it is suspended at
    lastEvent,           \* what the last action was and how it ended
    callsMade,           \* how many calls of the timeline's interface were made
    lineage,             \* who contains whom, and the parent pointers of clips and sequences
    clip                 \* one AnimClip: its status flags and where its host animation stands

commitVars == <<animClips, fullStartTime, groupings>>
runVars == <<seqStatus, inProgressClips, clipPos, integrityBlocks, playPc>>
finVars == <<toldToFinish, finishReturned, roadblocks, hooks>>
\* the variables of the machines of structure and of the machine of one clip:
\* no action of a sequence or of a timeline changes them, so they are part of
\* what a sequence's actions leave alone (tlVars) and of what a timeline's
\* actions leave alone (seqVars)
structureVars == <<lineage>>
\* the variable of the machine of one clip, which only that machine changes
clipVars == <<clip>>
\* the variables of playback, which no action of structure changes
playbackVars == <<commitVars, runVars, finVars, animSequences, loadedSeqIndex,
                  inProgressSequences, isAnimating, isJumping, isPaused, skippingOn,
                  stepCall, jumpCall, lastEvent, callsMade, clipVars>>
seqVars == <<commitVars, runVars, finVars, structureVars, clipVars>>
tlVars == <<animSequences, loadedSeqIndex, inProgressSequences, isAnimating, isJumping,
            isPaused, skippingOn, stepCall, jumpCall, lastEvent, callsMade, structureVars,
            clipVars>>
vars == <<seqVars, tlVars>>

(***************************************************************************)
(* Bounds and input sets                                                   *)
(***************************************************************************)
MaxClips == 3
MaxSeqs == 3
MaxCalls == 3

Delays == {0, 1, 2}
Durations == {1, 2}
EndDelays == {0, 1}
PlaybackRates == {1, 2}

\* Times are kept as integers: every time is stored multiplied by TimeScale,
\* so that the divisions by a playback rate of the getters are exact.
TimeScale == 2 ^ (MaxClips + 1)

NaN == -1

\* AnimClip's defaults (delay 0, duration one unit, endDelay 0, playbackRate 1)
DefaultTiming == [delay |-> 0, duration |-> 1, endDelay |-> 0, playbackRate |-> 1]

AllClipConfigs ==
    [delay : Delays, duration : Durations, endDelay : EndDelays,
     playbackRate : PlaybackRates,
     startsWithPrevious : BOOLEAN, startsNextClipToo : BOOLEAN]

\* the clips the machines are given: any sequencing flags, and at most one
\* timing option set away from its default
ClipConfigs ==
    {c \in AllClipConfigs :
        Cardinality({a \in DOMAIN DefaultTiming : c[a] # DefaultTiming[a]}) <= 1}

(***************************************************************************)
(* AnimClip: the timing getters                                            *)
(***************************************************************************)
activeStartTime(c, fst) == (fst + c.delay * TimeScale) \div c.playbackRate

activeFinishTime(c, fst) ==
    (fst + c.delay * TimeScale + c.duration * TimeScale) \div c.playbackRate

fullFinishTime(c, fst) ==
    (fst + c.delay * TimeScale + c.duration * TimeScale + c.endDelay * TimeScale)
        \div c.playbackRate

Max(a, b) == IF a >= b THEN a ELSE b
Min(a, b) == IF a <= b THEN a ELSE b

(***************************************************************************)
(* Array.prototype.sort (stable) and reverse, over lists of clip indices   *)
(***************************************************************************)
Reverse(s) == [k \in 1..Len(s) |-> s[Len(s) + 1 - k]]

\* insert x behind every element whose key is <= key[x]
RECURSIVE InsertSorted(_, _, _)
InsertSorted(s, x, key) ==
    IF s = <<>> THEN <<x>>
    ELSE IF key[x] < key[Head(s)] THEN <<x>> \o s
    ELSE <<Head(s)>> \o InsertSorted(Tail(s), x, key)

RECURSIVE StableSort(_, _)
StableSort(s, key) ==
    IF s = <<>> THEN <<>>
    ELSE InsertSorted(StableSort(SubSeq(s, 1, Len(s) - 1), key), s[Len(s)], key)

(***************************************************************************)
(* AnimSequence.commit                                                     *)
(***************************************************************************)
\* the three comparators, as the key each sorts ascending by
activeFinishKey(cl, fst) ==
    [k \in 1..Len(cl) |-> activeFinishTime(cl[k], fst[k])]
endDelayFinishKey(cl, fst) ==
    [k \in 1..Len(cl) |-> fullFinishTime(cl[k], fst[k])]
activeBackwardFinishKey(cl, fst) ==
    [k \in 1..Len(cl) |-> 0 - activeStartTime(cl[k], fst[k])]

joinStart_first(cl, i, st) == 0

joinStart_fullStart(cl, i, st) == IF i > 1 THEN st.fst[i - 1] ELSE 0

\* line 637: currStartTime = prevClip?.activeStartTime ?? 0
joinStart(cl, i, st) ==
    IF i > 1 THEN activeStartTime(cl[i - 1], st.fst[i - 1]) ELSE 0

\* line 652: currStartTime = maxFinishTime
newGroupStart(cl, i, st) == st.maxFinishTime

\* lines 641-647 and 662-668: close the current group
CloseGroup(cl, st) ==
    LET af == StableSort(st.currActiveFinishGrouping, activeFinishKey(cl, st.fst))
        ed == StableSort(st.currEndDelayGrouping, endDelayFinishKey(cl, st.fst))
        bw == StableSort(Reverse(ed), activeBackwardFinishKey(cl, st.fst))
    IN  [st EXCEPT !.backwardActiveFinishOrder = Append(@, bw),
                   !.activeFinishOrder = Append(@, af),
                   !.endDelayFinishOrder = Append(@, ed)]

\* a commit that looks at the clip's own flag only
StartsWithPrev_ownFlag(cl, i) == cl[i].startsWithPrevious

\* startsWithPrev of line 629
StartsWithPrev(cl, i) ==
    cl[i].startsWithPrevious \/ (i > 1 /\ cl[i - 1].startsNextClipToo)

\* one pass of the loop of lines 626-660, for the clip at (1-based) index i
CommitStep(cl, i, st) ==
    LET joins == StartsWithPrev(cl, i) \/ i = 1
        s1 == IF joins
              THEN [st EXCEPT !.currActiveFinishGrouping = Append(@, i),
                              !.currEndDelayGrouping = Append(@, i)]
              ELSE [CloseGroup(cl, st) EXCEPT
                              !.forwardGroupings = Append(@, <<>>),
                              !.currActiveFinishGrouping = <<i>>,
                              !.currEndDelayGrouping = <<i>>]
        currStartTime == IF joins THEN joinStart(cl, i, st) ELSE newGroupStart(cl, i, st)
        n == Len(s1.forwardGroupings)
    IN  [s1 EXCEPT !.forwardGroupings[n] = Append(@, i),
                   !.fst[i] = currStartTime,
                   !.maxFinishTime = Max(fullFinishTime(cl[i], currStartTime), @)]

RECURSIVE CommitLoop(_, _, _)
CommitLoop(cl, i, st) ==
    IF i > Len(cl) THEN st ELSE CommitLoop(cl, i + 1, CommitStep(cl, i, st))

\* lines 615-624: the state the loop starts from
CommitStart(fst) ==
    [fst |-> fst, maxFinishTime |-> 0,
     forwardGroupings |-> << <<>> >>,
     backwardActiveFinishOrder |-> <<>>,
     activeFinishOrder |-> <<>>,
     endDelayFinishOrder |-> <<>>,
     currActiveFinishGrouping |-> <<>>,
     currEndDelayGrouping |-> <<>>]

Committed(cl, fst) == CloseGroup(cl, CommitLoop(cl, 1, CommitStart(fst)))

\* the grouping lists as constructed (lines 187-190)
NoGroupings ==
    [forwardGroupings |-> << <<>> >>, backwardActiveFinishOrder |-> <<>>,
     activeFinishOrder |-> <<>>, endDelayFinishOrder |-> <<>>]

GroupingsOf(c) ==
    [forwardGroupings |-> c.forwardGroupings,
     backwardActiveFinishOrder |-> c.backwardActiveFinishOrder,
     activeFinishOrder |-> c.activeFinishOrder,
     endDelayFinishOrder |-> c.endDelayFinishOrder]

(***************************************************************************)
(* SpecCommit: a sequence that is given clips and committed                *)
(***************************************************************************)
\* AnimSequence's status fields as constructed (lines 208-214)
NewSeqStatus ==
    [inProgress |-> FALSE, isRunning |-> FALSE, isPaused |-> FALSE,
     isFinished |-> FALSE, wasPlayed |-> FALSE, wasRewound |-> FALSE,
     usingFinish |-> FALSE]

NoCall == [at |-> "none", i |-> 0, j |-> 0]

\* no step() or jumpTo() call is pending
NoStepCall ==
    [at |-> "none", dir |-> "none", pos |-> 0, ready |-> "no", from |-> 0,
     clean |-> FALSE]
NoJumpCall ==
    [at |-> "none", dir |-> "none", pos |-> 0, ready |-> "no",
     target |-> 0, detect |-> "none", branch |-> "none", phase |-> "none",
     wasPaused |-> FALSE, clean |-> FALSE]

\* the record of an event: the operation, how it ended, and what it was called with
Event(op, result) ==
    [op |-> op, result |-> result, from |-> 0, target |-> 0, mode |-> "none",
     clean |-> FALSE, index |-> 0]

\* the last call threw or rejected.  A call that throws leaves the timeline as
\* it was, but for the TypeError of a step or jump that reads past the list,
\* which leaves isAnimating or isJumping set for good: the machines follow a
\* run up to the first error and no further.
Halted == lastEvent.result \notin {"none", "ok", "resolved", "warn"}

\* A call suspended at an await resumes in a microtask.  ready tells whether
\* the awaited promise has resolved: "atCall" when play() / rewind() returned
\* at once (the code that made the call may still make further calls before
\* the microtask runs), "completed" when the sequence's run came to its end
\* (the microtask runs before any further call or animation event).
MicrotaskPending ==
    \/ stepCall.at = "await" /\ stepCall.ready # "no"
    \/ jumpCall.at = "stepping" /\ jumpCall.ready # "no"
    \/ jumpCall.at = "settle"
MicrotaskFromCompletion ==
    \/ stepCall.at = "await" /\ stepCall.ready = "completed"
    \/ jumpCall.at = "stepping" /\ jumpCall.ready = "completed"

\* a call of the timeline's interface can be made
CallAllowed ==
    /\ ~Halted
    /\ ~MicrotaskFromCompletion
    /\ callsMade < MaxCalls
    /\ callsMade' = callsMade + 1

\* the value of an unset parent pointer
undefined == "undefined"

\* the objects of the machine of structure
Clips == {"c1", "c2"}
Sequences == {"S1", "S2"}
Timelines == {"T1", "T2"}

\* clips, sequences and timelines as constructed: empty lists, no parents
NoLineage ==
    [clips |-> [S \in Sequences |-> <<>>],
     sequences |-> [T \in Timelines |-> <<>>],
     clipSequence |-> [c \in Clips |-> undefined],
     clipTimeline |-> [c \in Clips |-> undefined],
     seqTimeline |-> [S \in Sequences |-> undefined],
     result |-> "none"]

StructureIdle == lineage = NoLineage

\* an AnimClip as constructed (AnimTimeline.ts lines 1043-1045); parent tells
\* whether the clip is part of a sequence, hookThrows the phase whose hook throws
NewClip(parent, hookThrows) ==
    [inProgress |-> FALSE, isRunning |-> FALSE, isPaused |-> FALSE,
     direction |-> "forward", phase |-> "none", hostPaused |-> FALSE,
     finishing |-> FALSE, settled |-> "none", catchPending |-> FALSE,
     parent |-> parent, parentPaused |-> FALSE, hookThrows |-> hookThrows]

ClipIdle == clip = NewClip("none", "none")

\* the timeline as constructed (lines 192-207)
TimelineIdle ==
    /\ animSequences = <<>>
    /\ loadedSeqIndex = 0
    /\ inProgressSequences = {}
    /\ isAnimating = FALSE
    /\ isJumping = FALSE
    /\ isPaused = FALSE
    /\ skippingOn = FALSE
    /\ stepCall = NoStepCall
    /\ jumpCall = NoJumpCall
    /\ lastEvent = Event("none", "none")
    /\ callsMade = 0

\* no finish() call was made, and no clip has a roadblock
FinishIdle ==
    /\ toldToFinish = {}
    /\ finishReturned = [flip |-> FALSE, last |-> "none"]
    /\ roadblocks = [pending |-> {}, resolved |-> {}]
    /\ hooks = [throwing |-> {}, rejected |-> {}]

RunIdle ==
    /\ seqStatus = NewSeqStatus
    /\ inProgressClips = {}
    /\ clipPos = <<>>
    /\ integrityBlocks = <<>>
    /\ playPc = NoCall

InitCommit ==
    /\ ClipIdle
    /\ StructureIdle
    /\ animClips = <<>>
    /\ fullStartTime = <<>>
    /\ groupings = NoGroupings
    /\ RunIdle
    /\ TimelineIdle
    /\ FinishIdle

\* AnimSequence.addClips, one clip at a time
addClips ==
    /\ Len(animClips) < MaxClips
    /\ groupings = NoGroupings
    /\ \E c \in ClipConfigs :
          /\ animClips' = Append(animClips, c)
          /\ fullStartTime' = Append(fullStartTime, NaN)
    /\ UNCHANGED <<groupings, runVars>>
    /\ UNCHANGED <<finVars, tlVars>>

\* AnimSequence.commit
commit ==
    /\ LET c == Committed(animClips, fullStartTime)
       IN  /\ fullStartTime' = c.fst
           /\ groupings' = GroupingsOf(c)
    /\ UNCHANGED <<animClips, runVars>>
    /\ UNCHANGED <<finVars, tlVars>>

NextCommit == addClips \/ commit

SpecCommit == InitCommit /\ [][NextCommit]_vars

(***************************************************************************)
(* SpecSeq: AnimSequence.play over the host animations of its clips        *)
(*                                                                         *)
(* A clip's host animation runs through                                    *)
(*   idle -> delayPhase -> activePhase -> activeEnd -> endDelayPhase       *)
(*        -> finished                                                      *)
(* at a speed of its own: the machine interleaves the clips' phase         *)
(* boundaries in every order the blocks and the launches allow.            *)
(* "activeEnd" is the playhead standing at the end of the active phase,    *)
(* held there until the integrity blocks of that position have resolved.   *)
(***************************************************************************)
\* the clips SpecSeq runs: default endDelay, a delay of at most one unit, no
\* startsNextClipToo
SeqClipConfigs ==
    {c \in ClipConfigs : c.endDelay = 0 /\ c.delay <= 1 /\ ~c.startsNextClipToo}

ClipIds == 1..Len(animClips)

\* generateTimePromise('forward', 'activePhase', 'beginning') of clip c has resolved
ActiveBegun(c) ==
    clipPos[c] \in {"activePhase", "activeEnd", "endDelayPhase", "finished"}

\* generateTimePromise('forward', 'activePhase', 'end') of clip c has resolved
ActiveEnded(c) == clipPos[c] \in {"endDelayPhase", "finished"}

ForwardIntegrityBlocks_none(order, n) == [c \in 1..n |-> {}]

\* lines 404-415: clip order[g][k] awaits the end of the active phase of order[g][k-1]
ForwardIntegrityBlocks(order, n) ==
    [c \in 1..n |->
        {b \in 1..n : \E g \in 1..Len(order) : \E k \in 2..Len(order[g]) :
                          order[g][k] = c /\ order[g][k - 1] = b}]

\* where play() suspends after it has launched clip j of group i (lines 427-437)
AfterLaunch(fg, i, j) ==
    IF j < Len(fg[i])
    THEN [at |-> "awaitActiveBegin", i |-> i, j |-> j + 1]
    ELSE [at |-> "awaitAll", i |-> i, j |-> 0]

\* line 430: the time promise play() awaits before it launches clip j of group i
LaunchAwaited(fg, i, j) == ActiveBegun(fg[i][j - 1])

GroupAwaited_first(fg, i) == clipPos[fg[i][1]] = "finished"

\* line 437: await Promise.all(parallelClips), every play promise fulfilled
GroupAwaited(fg, i) ==
    \A k \in 1..Len(fg[i]) :
        clipPos[fg[i][k]] = "finished" /\ fg[i][k] \notin hooks.rejected

\* AnimSequence.skippingOn (line 215): the parent timeline's flags, false without one
sequenceSkippingOn == skippingOn \/ isJumping

\* AnimClip.animate (lines 1404-1405): clip c is launched with the host's
\* finish() when its sequence is skipping, with the host's play() otherwise
animate_told(told, c) == IF sequenceSkippingOn THEN told \cup {c} ELSE told

\* AnimClip.animate (lines 1404-1407): where the host animation of a clip
\* stands once launched.  Launched while its sequence is paused, the host is
\* paused at once while the clip itself is left running (isRunning true,
\* isPaused false): "pausedAtLaunch".
animate_pos == IF seqStatus.isPaused THEN "pausedAtLaunch" ELSE "delayPhase"

\* The body of AnimSequence.play up to its first await, entered with status st
playStart(st) ==
    LET c == Committed(animClips, fullStartTime)
        fg == c.forwardGroupings
    IN  /\ fullStartTime' = c.fst
        /\ groupings' = GroupingsOf(c)
        /\ seqStatus' = [st EXCEPT !.inProgress = TRUE, !.isRunning = TRUE,
                                   !.isFinished = FALSE]
        /\ integrityBlocks' = ForwardIntegrityBlocks(c.activeFinishOrder, Len(animClips))
        /\ IF fg[1] = <<>>
           THEN \* firstClip is undefined: firstClip.id throws, the call rejects
                /\ playPc' = [at |-> "rejected", i |-> 1, j |-> 0]
                /\ clipPos' = clipPos
                /\ inProgressClips' = inProgressClips
                /\ toldToFinish' = toldToFinish
           ELSE /\ playPc' = AfterLaunch(fg, 1, 1)
                /\ clipPos' = [k \in ClipIds |->
                                  IF k = fg[1][1] THEN animate_pos ELSE "idle"]
                /\ inProgressClips' = {fg[1][1]}
                /\ toldToFinish' = animate_told({}, fg[1][1])

\* AnimSequence.play, up to its first await
play ==
    /\ ~seqStatus.inProgress
    /\ playStart(seqStatus)
    /\ UNCHANGED animClips
    /\ UNCHANGED <<finishReturned, roadblocks, hooks, tlVars>>

\* play() resumes from line 430 and launches the next clip of the group
playLaunchNext ==
    /\ playPc.at = "awaitActiveBegin"
    /\ LET fg == groupings.forwardGroupings
           i == playPc.i
           j == playPc.j
       IN  /\ LaunchAwaited(fg, i, j)
           /\ clipPos' = [clipPos EXCEPT ![fg[i][j]] = animate_pos]
           /\ inProgressClips' = inProgressClips \cup {fg[i][j]}
           /\ toldToFinish' = animate_told(toldToFinish, fg[i][j])
           /\ playPc' = AfterLaunch(fg, i, j)
    /\ UNCHANGED <<commitVars, seqStatus, integrityBlocks>>
    /\ UNCHANGED <<finishReturned, roadblocks, hooks, tlVars>>

\* play() resumes from line 437 and launches the next group
playNextGroup ==
    /\ playPc.at = "awaitAll"
    /\ LET fg == groupings.forwardGroupings
           i == playPc.i
       IN  /\ i < Len(fg)
           /\ GroupAwaited(fg, i)
           /\ clipPos' = [clipPos EXCEPT ![fg[i + 1][1]] = animate_pos]
           /\ inProgressClips' = inProgressClips \cup {fg[i + 1][1]}
           /\ toldToFinish' = animate_told(toldToFinish, fg[i + 1][1])
           /\ playPc' = AfterLaunch(fg, i + 1, 1)
    /\ UNCHANGED <<commitVars, seqStatus, integrityBlocks>>
    /\ UNCHANGED <<finishReturned, roadblocks, hooks, tlVars>>

\* play() resumes from line 437 after the last group (lines 440-448)
playFinish ==
    /\ playPc.at = "awaitAll"
    /\ LET fg == groupings.forwardGroupings
           i == playPc.i
       IN  /\ i = Len(fg)
           /\ GroupAwaited(fg, i)
    /\ seqStatus' = [seqStatus EXCEPT !.inProgress = FALSE, !.isRunning = FALSE,
                                      !.isFinished = TRUE, !.wasPlayed = TRUE,
                                      !.wasRewound = FALSE, !.usingFinish = FALSE]
    /\ playPc' = [at |-> "done", i |-> 0, j |-> 0]
    /\ UNCHANGED <<commitVars, inProgressClips, clipPos, integrityBlocks>>
    /\ UNCHANGED <<finVars, tlVars>>

\* AnimSequence.pause (lines 529-534) pauses the host animation of every clip
\* in progress, unpause (lines 541-546) lets them run again
HostRunning == ~seqStatus.isPaused

\* the host animation of clip c crosses the end of its delay phase
DelayFinish(c) ==
    /\ HostRunning
    /\ clipPos[c] = "delayPhase"
    /\ clipPos' = [clipPos EXCEPT ![c] = "activePhase"]
    /\ UNCHANGED <<commitVars, seqStatus, inProgressClips, integrityBlocks, playPc>>
    /\ UNCHANGED <<finVars, tlVars>>

\* AnimClip.addRoadblocks (line 1372-1374): the roadblock of clip c, placed
\* inside its active phase, holds the host animation until its promise resolves
RoadblocksResolved_always(c) == TRUE

RoadblocksResolved(c) == c \notin roadblocks.pending

\* the host animation of clip c reaches the end of its active phase
ActiveReachEnd(c) ==
    /\ HostRunning
    /\ clipPos[c] = "activePhase"
    /\ RoadblocksResolved(c)
    /\ clipPos' = [clipPos EXCEPT ![c] = "activeEnd"]
    /\ UNCHANGED <<commitVars, seqStatus, inProgressClips, integrityBlocks, playPc>>
    /\ UNCHANGED <<finVars, tlVars>>

\* the integrity blocks at the end of the active phase of clip c have resolved
BlocksResolved(c) == \A b \in integrityBlocks[c] : ActiveEnded(b)

\* AnimSequence.pause (lines 529-534) as it changes the status
pause_status(st) ==
    IF st.isRunning THEN [st EXCEPT !.isRunning = FALSE, !.isPaused = TRUE] ELSE st

\* AnimSequence.pause (line 533) as it changes the clips in progress:
\* AnimClip.pause (lines 1299-1308) pauses every clip that is running, a clip
\* paused at its launch included, which AnimClip.unpause then lets run
pause_clips(st, pos) ==
    IF st.isRunning
    THEN [k \in DOMAIN pos |-> IF pos[k] = "pausedAtLaunch" THEN "delayPhase" ELSE pos[k]]
    ELSE pos

\* clip c crosses the end of its active phase and onActiveFinish runs (lines
\* 1487-1535).  When the hook throws, the clip's promise rejects and the
\* handler of lines 1563-1566 pauses the clip's root, here the sequence.
ActiveFinish(c) ==
    /\ HostRunning
    /\ clipPos[c] = "activeEnd"
    /\ BlocksResolved(c)
    /\ IF c \in hooks.throwing
       THEN /\ hooks' = [hooks EXCEPT !.rejected = @ \cup {c}]
            /\ seqStatus' = pause_status(seqStatus)
            /\ clipPos' = pause_clips(seqStatus, [clipPos EXCEPT ![c] = "endDelayPhase"])
       ELSE /\ clipPos' = [clipPos EXCEPT ![c] = "endDelayPhase"]
            /\ UNCHANGED <<hooks, seqStatus>>
    /\ UNCHANGED <<commitVars, inProgressClips, integrityBlocks, playPc>>
    /\ UNCHANGED <<toldToFinish, finishReturned, roadblocks, tlVars>>

\* clip c crosses the end of its endDelay phase: its play promise resolves
\* and the sequence takes it out of inProgressClips (lines 424, 434)
EndDelayFinish(c) ==
    /\ HostRunning
    /\ clipPos[c] = "endDelayPhase"
    /\ clipPos' = [clipPos EXCEPT ![c] = "finished"]
    /\ inProgressClips' = IF c \in hooks.rejected
                          THEN inProgressClips
                          ELSE inProgressClips \ {c}
    /\ UNCHANGED <<commitVars, seqStatus, integrityBlocks, playPc>>
    /\ UNCHANGED <<finVars, tlVars>>

InitSeq ==
    /\ ClipIdle
    /\ StructureIdle
    /\ animClips \in UNION {[1..n -> SeqClipConfigs] : n \in 0..MaxClips}
    /\ fullStartTime = [k \in ClipIds |-> NaN]
    /\ groupings = NoGroupings
    /\ seqStatus = NewSeqStatus
    /\ inProgressClips = {}
    /\ clipPos = [k \in ClipIds |-> "idle"]
    /\ integrityBlocks = [k \in ClipIds |-> {}]
    /\ playPc = NoCall
    /\ TimelineIdle
    /\ FinishIdle

NextSeq ==
    \/ play
    \/ playLaunchNext
    \/ playNextGroup
    \/ playFinish
    \/ \E c \in ClipIds : DelayFinish(c)
    \/ \E c \in ClipIds : ActiveReachEnd(c)
    \/ \E c \in ClipIds : ActiveFinish(c)
    \/ \E c \in ClipIds : EndDelayFinish(c)

SpecSeq == InitSeq /\ [][NextSeq]_vars

\* the forward group (index into forwardGroupings) that holds clip c
GroupOf(c) ==
    CHOOSE g \in 1..Len(groupings.forwardGroupings) :
        \E k \in 1..Len(groupings.forwardGroupings[g]) :
            groupings.forwardGroupings[g][k] = c

IsCommitted == groupings # NoGroupings /\ \A k \in ClipIds : fullStartTime[k] # NaN

\* C1: in a forward run, of two clips of one group the one with the smaller
\* committed activeFinishTime ends its active phase first: the other one
\* has not crossed the end of its active phase while the first has not.
C1_ActiveFinishOrder ==
    IsCommitted =>
        \A a, b \in ClipIds :
            ( /\ GroupOf(a) = GroupOf(b)
              /\ activeFinishTime(animClips[a], fullStartTime[a])
                    < activeFinishTime(animClips[b], fullStartTime[b])
              /\ ActiveEnded(b) )
            => ActiveEnded(a)

\* a clip launched before a later-inserted clip of its group stands held at the
\* end of its active phase while that clip, which is to finish first, is behind
C1_Witness ==
    /\ IsCommitted
    /\ \E a, b \in ClipIds :
          /\ b < a
          /\ GroupOf(a) = GroupOf(b)
          /\ activeFinishTime(animClips[a], fullStartTime[a])
                < activeFinishTime(animClips[b], fullStartTime[b])
          /\ clipPos[b] = "activeEnd"
          /\ clipPos[a] = "delayPhase"

\* C2: in a forward run a clip is launched only when every clip of the
\* earlier groups has reached its full finish and, unless it is the first
\* of its group, when its predecessor has begun its active phase.
C2_LaunchOrder ==
    IsCommitted =>
        \A c \in ClipIds :
            clipPos[c] # "idle" =>
                /\ \A d \in ClipIds :
                      GroupOf(d) < GroupOf(c) => clipPos[d] = "finished"
                /\ (c > 1 /\ GroupOf(c - 1) = GroupOf(c)) => ActiveBegun(c - 1)

\* the second group is running: the first group is fully finished and a clip
\* of the second group was launched once its predecessor began its active phase
C2_Witness ==
    /\ IsCommitted
    /\ \E c, d \in ClipIds :
          /\ GroupOf(c) = 2
          /\ GroupOf(d) = 2
          /\ d = c + 1
          /\ clipPos[c] = "activePhase"
          /\ clipPos[d] = "delayPhase"

(***************************************************************************)
(* SpecRun: a sequence played and rewound, over the host animations        *)
(*                                                                         *)
(* The backward run of a clip's host animation goes through                *)
(*   finished -> rwEndDelayPhase -> rwActivePhase -> rwActiveBegin         *)
(*            -> rwDelayPhase -> rewound                                   *)
(* "rwActiveBegin" is the playhead standing at the beginning of the active *)
(* phase, held there until the integrity blocks of that position have      *)
(* resolved.  SpecRun has the actions of SpecSeq and those of rewind().    *)
(***************************************************************************)
\* the clips SpecRun runs: default rate and endDelay, no startsNextClipToo, and
\* either a delay of one unit or a duration of three set on a clip
RunClipConfigs ==
    {c \in [delay : {0, 1}, duration : {1, 3}, endDelay : {0}, playbackRate : {1},
            startsWithPrevious : BOOLEAN, startsNextClipToo : {FALSE}] :
        c.delay = 0 \/ c.duration = 1}

\* clip c has been launched in the backward run
RwLaunched(c) ==
    clipPos[c] \in {"rwEndDelayPhase", "rwActivePhase", "rwActiveBegin", "rwDelayPhase",
                    "rewound"}

\* generateTimePromise('backward', 'activePhase', 'beginning') of clip c has resolved
RwActiveEnded(c) == clipPos[c] \in {"rwDelayPhase", "rewound"}

BackwardIntegrityBlocks_none(order, n) == [c \in 1..n |-> {}]

\* lines 467-476: clip order[g][k] awaits the rewinding of the active phase of
\* order[g][k-1], order being backwardActiveFinishOrder
BackwardIntegrityBlocks(order, n) ==
    [c \in 1..n |->
        {b \in 1..n : \E g \in 1..Len(order) : \E k \in 2..Len(order[g]) :
                          order[g][k] = c /\ order[g][k - 1] = b}]

rewindFirst_head(grouping) == grouping[1]

\* line 485: lastClip, the clip a group's rewinding starts with
rewindFirst(grouping) == grouping[Len(grouping)]

\* where rewind() suspends after it has launched clip j of group i (lines 491-510)
AfterRewindLaunch(i, j) ==
    IF j > 1
    THEN [at |-> "rwAwaitNext", i |-> i, j |-> j - 1]
    ELSE [at |-> "rwAwaitAll", i |-> i, j |-> 0]

\* lines 494-501: what rewind() awaits before it launches curr, next being the
\* clip launched before it.  When the two overlap in forward time it is a
\* point of the run of next, reached at some moment after the launch of next;
\* otherwise it is the end of the run of next.
RewindLaunchAwaited(curr, next) ==
    IF fullFinishTime(animClips[curr], fullStartTime[curr]) > fullStartTime[next]
    THEN RwLaunched(next)
    ELSE clipPos[next] = "rewound"

\* line 510: await Promise.all(parallelClips)
RewindGroupAwaited(grouping) ==
    \A k \in 1..Len(grouping) : clipPos[grouping[k]] = "rewound"

\* AnimSequence.rewind of a sequence that was played, up to its first await
rewind ==
    /\ ~seqStatus.inProgress
    /\ seqStatus.wasPlayed
    /\ LET order == groupings.endDelayFinishOrder
           n == Len(order)
       IN  /\ seqStatus' = [seqStatus EXCEPT !.inProgress = TRUE, !.isRunning = TRUE,
                                             !.isFinished = FALSE]
           /\ integrityBlocks' =
                 BackwardIntegrityBlocks(groupings.backwardActiveFinishOrder, Len(animClips))
           /\ clipPos' = [clipPos EXCEPT ![rewindFirst(order[n])] = "rwEndDelayPhase"]
           /\ inProgressClips' = {rewindFirst(order[n])}
           /\ toldToFinish' = animate_told({}, rewindFirst(order[n]))
           /\ playPc' = AfterRewindLaunch(n, Len(order[n]))
    /\ UNCHANGED commitVars
    /\ UNCHANGED <<finishReturned, roadblocks, hooks, tlVars>>

\* rewind() resumes from line 495 / 499 and launches the clip before
rewindLaunchNext ==
    /\ playPc.at = "rwAwaitNext"
    /\ LET grouping == groupings.endDelayFinishOrder[playPc.i]
           curr == grouping[playPc.j]
           next == grouping[playPc.j + 1]
       IN  /\ RewindLaunchAwaited(curr, next)
           /\ clipPos' = [clipPos EXCEPT ![curr] = "rwEndDelayPhase"]
           /\ inProgressClips' = inProgressClips \cup {curr}
           /\ toldToFinish' = animate_told(toldToFinish, curr)
           /\ playPc' = AfterRewindLaunch(playPc.i, playPc.j)
    /\ UNCHANGED <<commitVars, seqStatus, integrityBlocks>>
    /\ UNCHANGED <<finishReturned, roadblocks, hooks, tlVars>>

\* rewind() resumes from line 510 and launches the group before
rewindNextGroup ==
    /\ playPc.at = "rwAwaitAll"
    /\ playPc.i > 1
    /\ LET order == groupings.endDelayFinishOrder
           i == playPc.i
       IN  /\ RewindGroupAwaited(order[i])
           /\ clipPos' = [clipPos EXCEPT ![rewindFirst(order[i - 1])] = "rwEndDelayPhase"]
           /\ inProgressClips' = inProgressClips \cup {rewindFirst(order[i - 1])}
           /\ toldToFinish' = animate_told(toldToFinish, rewindFirst(order[i - 1]))
           /\ playPc' = AfterRewindLaunch(i - 1, Len(order[i - 1]))
    /\ UNCHANGED <<commitVars, seqStatus, integrityBlocks>>
    /\ UNCHANGED <<finishReturned, roadblocks, hooks, tlVars>>

RewoundStatus_keepPlayed(st) ==
    [st EXCEPT !.inProgress = FALSE, !.isRunning = FALSE, !.isFinished = TRUE,
               !.wasRewound = TRUE, !.usingFinish = FALSE]

\* lines 513-518: the status rewind() leaves
RewoundStatus(st) ==
    [st EXCEPT !.inProgress = FALSE, !.isRunning = FALSE, !.isFinished = TRUE,
               !.wasPlayed = FALSE, !.wasRewound = TRUE, !.usingFinish = FALSE]

\* rewind() resumes from line 510 after the first group (lines 513-521)
rewindFinish ==
    /\ playPc.at = "rwAwaitAll"
    /\ playPc.i = 1
    /\ RewindGroupAwaited(groupings.endDelayFinishOrder[1])
    /\ seqStatus' = RewoundStatus(seqStatus)
    /\ playPc' = [at |-> "rewound", i |-> 0, j |-> 0]
    /\ UNCHANGED <<commitVars, inProgressClips, clipPos, integrityBlocks>>
    /\ UNCHANGED <<finVars, tlVars>>

\* the host animation of clip c, rewinding, crosses the beginning of its endDelay phase
RwEndDelayFinish(c) ==
    /\ clipPos[c] = "rwEndDelayPhase"
    /\ clipPos' = [clipPos EXCEPT ![c] = "rwActivePhase"]
    /\ UNCHANGED <<commitVars, seqStatus, inProgressClips, integrityBlocks, playPc>>
    /\ UNCHANGED <<finVars, tlVars>>

\* the host animation of clip c, rewinding, reaches the beginning of its active phase
RwActiveReachBegin(c) ==
    /\ clipPos[c] = "rwActivePhase"
    /\ clipPos' = [clipPos EXCEPT ![c] = "rwActiveBegin"]
    /\ UNCHANGED <<commitVars, seqStatus, inProgressClips, integrityBlocks, playPc>>
    /\ UNCHANGED <<finVars, tlVars>>

\* the integrity blocks at the beginning of the active phase of clip c have resolved
RwBlocksResolved(c) == \A b \in integrityBlocks[c] : RwActiveEnded(b)

\* clip c, rewinding, crosses the beginning of its active phase
RwActiveFinish(c) ==
    /\ clipPos[c] = "rwActiveBegin"
    /\ RwBlocksResolved(c)
    /\ clipPos' = [clipPos EXCEPT ![c] = "rwDelayPhase"]
    /\ UNCHANGED <<commitVars, seqStatus, inProgressClips, integrityBlocks, playPc>>
    /\ UNCHANGED <<finVars, tlVars>>

\* clip c, rewinding, crosses the beginning of its delay phase: its rewind
\* promise resolves and the sequence takes it out of inProgressClips (lines 489, 507)
RwDelayFinish(c) ==
    /\ clipPos[c] = "rwDelayPhase"
    /\ clipPos' = [clipPos EXCEPT ![c] = "rewound"]
    /\ inProgressClips' = inProgressClips \ {c}
    /\ UNCHANGED <<commitVars, seqStatus, integrityBlocks, playPc>>
    /\ UNCHANGED <<finVars, tlVars>>

InitRun ==
    /\ ClipIdle
    /\ StructureIdle
    /\ animClips \in UNION {[1..n -> RunClipConfigs] : n \in 0..MaxClips}
    /\ fullStartTime = [k \in ClipIds |-> NaN]
    /\ groupings = NoGroupings
    /\ seqStatus = NewSeqStatus
    /\ inProgressClips = {}
    /\ clipPos = [k \in ClipIds |-> "idle"]
    /\ integrityBlocks = [k \in ClipIds |-> {}]
    /\ playPc = NoCall
    /\ TimelineIdle
    /\ FinishIdle

NextRun ==
    \/ NextSeq
    \/ rewind
    \/ rewindLaunchNext
    \/ rewindNextGroup
    \/ rewindFinish
    \/ \E c \in ClipIds : RwEndDelayFinish(c)
    \/ \E c \in ClipIds : RwActiveReachBegin(c)
    \/ \E c \in ClipIds : RwActiveFinish(c)
    \/ \E c \in ClipIds : RwDelayFinish(c)

SpecRun == InitRun /\ [][NextRun]_vars

(***************************************************************************)
(* SpecCtl: a forward run under pause(), unpause() and finish()            *)
(*                                                                         *)
(* A sequence without a parent timeline plays forward while its pause(),   *)
(* unpause() and finish() are called.  One clip may carry a roadblock      *)
(* inside its active phase that awaits a promise the user resolves, and    *)
(* the onActiveFinish hook of one clip may throw.  A call suspended at an  *)
(* await resumes in a microtask, before any further call of the user.  The *)
(* sequence is played once.                                                *)
(***************************************************************************)
\* a clip that opens a group starts at once, a clip that joins one has a
\* delay longer than the active phase of the clip it joins
CtlClipConfigs ==
    {c \in [delay : {0, 2}, duration : {1}, endDelay : {0}, playbackRate : {1},
            startsWithPrevious : BOOLEAN, startsNextClipToo : {FALSE}] :
        c.delay = IF c.startsWithPrevious THEN 2 ELSE 0}

\* Promise.all(parallelClips) of line 437 rejects with the first play promise that rejects
GroupRejected(fg, i) == \E k \in 1..Len(fg[i]) : fg[i][k] \in hooks.rejected

\* the promise the pending play() call awaits has settled
PlayReady ==
    LET fg == groupings.forwardGroupings
    IN  \/ playPc.at = "awaitActiveBegin" /\ LaunchAwaited(fg, playPc.i, playPc.j)
        \/ playPc.at = "awaitAll"
              /\ (GroupAwaited(fg, playPc.i) \/ GroupRejected(fg, playPc.i))

\* play() resumes from line 437 with a rejection: the call rejects, the
\* status of lines 440-445 is never written
playReject ==
    /\ playPc.at = "awaitAll"
    /\ GroupRejected(groupings.forwardGroupings, playPc.i)
    /\ playPc' = [at |-> "rejected", i |-> playPc.i, j |-> 0]
    /\ UNCHANGED <<commitVars, seqStatus, inProgressClips, clipPos, integrityBlocks>>
    /\ UNCHANGED <<finVars, tlVars>>

\* AnimSequence.pause (lines 529-534)
pauseSequence ==
    /\ ~PlayReady
    /\ seqStatus.isRunning
    /\ seqStatus' = pause_status(seqStatus)
    /\ clipPos' = pause_clips(seqStatus, clipPos)
    /\ UNCHANGED <<commitVars, inProgressClips, integrityBlocks, playPc>>
    /\ UNCHANGED <<finVars, tlVars>>

\* AnimSequence.unpause (lines 541-546): AnimClip.unpause (lines 1312-1321)
\* lets the host of every paused clip run, and does nothing for a clip that
\* is not paused, as the one whose host was paused at its launch
unpauseSequence ==
    /\ ~PlayReady
    /\ seqStatus.isPaused
    /\ seqStatus' = [seqStatus EXCEPT !.isRunning = TRUE, !.isPaused = FALSE]
    /\ UNCHANGED <<commitVars, inProgressClips, clipPos, integrityBlocks, playPc>>
    /\ UNCHANGED <<finVars, tlVars>>

finishInProgressAnimations_none(told) == told

\* AnimSequence.finishInProgressAnimations (lines 577-579): AnimClip.finish of
\* every clip in progress, none of them paused, calls the host's finish()
finishInProgressAnimations(told) == told \cup inProgressClips

\* AnimSequence.finish (lines 556-568)
finish ==
    /\ ~PlayReady
    /\ hooks.rejected = {}
    /\ IF seqStatus.usingFinish \/ seqStatus.isPaused
       THEN \* line 557: return this, a promise resolved at once
            /\ finishReturned' = [flip |-> ~finishReturned.flip, last |-> "this"]
            /\ UNCHANGED <<commitVars, runVars, toldToFinish>>
       ELSE /\ finishReturned' = [flip |-> ~finishReturned.flip,
                                  last |-> "fullyFinished"]
            /\ IF seqStatus.inProgress
               THEN /\ seqStatus' = [seqStatus EXCEPT !.usingFinish = TRUE]
                    /\ toldToFinish' = finishInProgressAnimations(toldToFinish)
                    /\ UNCHANGED <<commitVars, inProgressClips, clipPos,
                                   integrityBlocks, playPc>>
               ELSE IF ~seqStatus.wasPlayed \/ seqStatus.wasRewound
               THEN /\ playStart([seqStatus EXCEPT !.usingFinish = TRUE])
                    /\ UNCHANGED animClips
               ELSE /\ seqStatus' = [seqStatus EXCEPT !.usingFinish = TRUE]
                    /\ UNCHANGED <<commitVars, inProgressClips, clipPos,
                                   integrityBlocks, playPc, toldToFinish>>
    /\ UNCHANGED <<roadblocks, hooks, tlVars>>

\* the promise the roadblock of clip c awaits resolves
roadblockResolves(c) ==
    /\ c \in roadblocks.pending
    /\ roadblocks' = [pending |-> roadblocks.pending \ {c},
                      resolved |-> roadblocks.resolved \cup {c}]
    /\ UNCHANGED <<commitVars, runVars, toldToFinish, finishReturned, hooks, tlVars>>

\* no clip, or one clip of the sequence
AtMostOne(n) == {{}} \cup {{c} : c \in 1..n}

InitCtl ==
    /\ ClipIdle
    /\ StructureIdle
    /\ animClips \in UNION {[1..n -> CtlClipConfigs] : n \in 0..MaxClips}
    /\ animClips # <<>> => ~animClips[1].startsWithPrevious
    /\ fullStartTime = [k \in ClipIds |-> NaN]
    /\ groupings = NoGroupings
    /\ seqStatus = NewSeqStatus
    /\ inProgressClips = {}
    /\ clipPos = [k \in ClipIds |-> "idle"]
    /\ integrityBlocks = [k \in ClipIds |-> {}]
    /\ playPc = NoCall
    /\ toldToFinish = {}
    /\ finishReturned = [flip |-> FALSE, last |-> "none"]
    /\ \E r, h \in AtMostOne(Len(animClips)) :
          /\ r = {} \/ h = {}
          /\ roadblocks = [pending |-> r, resolved |-> {}]
          /\ hooks = [throwing |-> h, rejected |-> {}]
    /\ TimelineIdle

NextCtl ==
    \/ playPc = NoCall /\ play
    \/ playLaunchNext
    \/ playNextGroup
    \/ playFinish
    \/ playReject
    \/ pauseSequence
    \/ unpauseSequence
    \/ finish
    \/ \E c \in ClipIds : roadblockResolves(c)
    \/ \E c \in ClipIds : DelayFinish(c)
    \/ \E c \in ClipIds : ActiveReachEnd(c)
    \/ \E c \in ClipIds : ActiveFinish(c)
    \/ \E c \in ClipIds : EndDelayFinish(c)

SpecCtl == InitCtl /\ [][NextCtl]_vars

\* a step of a host animation or the continuation of the pending play()
Progress ==
    \/ playLaunchNext
    \/ playNextGroup
    \/ playFinish
    \/ playReject
    \/ \E c \in ClipIds : DelayFinish(c)
    \/ \E c \in ClipIds : ActiveReachEnd(c)
    \/ \E c \in ClipIds : ActiveFinish(c)
    \/ \E c \in ClipIds : EndDelayFinish(c)

\* the host animations and the microtasks make progress; the calls of the
\* user and the promises roadblocks await are under no obligation
LiveCtl == SpecCtl /\ WF_vars(Progress)

(***************************************************************************)
(* Spec: AnimTimeline over its sequences                                   *)
(*                                                                         *)
(* A sequence is kept as a record of its two autoplay options and its      *)
(* status; its run over its clips (SpecSeq) is one step here, the run's    *)
(* completion.  loadedSeqIndex and every index of the code are 0-based:    *)
(* the sequence at index k of the code is animSequences[k + 1].            *)
(***************************************************************************)
numSequences == Len(animSequences)
atBeginning == loadedSeqIndex = 0
atEnd == loadedSeqIndex = numSequences
lockedStructure_whileAnimating == isAnimating

lockedStructure == isAnimating \/ isJumping

\* all of the timeline but the record of the last event
tlState == <<animSequences, loadedSeqIndex, inProgressSequences, isAnimating, isJumping,
             isPaused, skippingOn, stepCall, jumpCall>>

\* a sequence as constructed with the two autoplay options
NewSequence(autoplays, autoplaysNextSequence) ==
    [autoplays |-> autoplays, autoplaysNextSequence |-> autoplaysNextSequence,
     inProgress |-> FALSE, isRunning |-> FALSE, isPaused |-> FALSE,
     isFinished |-> FALSE, wasPlayed |-> FALSE, wasRewound |-> FALSE,
     usingFinish |-> FALSE, run |-> "none"]

\* AnimSequence.play up to its first await: a call on a sequence in progress returns at once
sequencePlay(s) ==
    IF s.inProgress THEN s
    ELSE [s EXCEPT !.inProgress = TRUE, !.isRunning = TRUE, !.isFinished = FALSE,
                   !.run = "forward"]

\* AnimSequence.rewind up to its first await
sequenceRewind(s) ==
    IF s.inProgress THEN s
    ELSE [s EXCEPT !.inProgress = TRUE, !.isRunning = TRUE, !.isFinished = FALSE,
                   !.run = "backward"]

\* the end of AnimSequence.play (lines 440-445) or rewind (lines 513-518)
sequenceDone(s) ==
    [s EXCEPT !.inProgress = FALSE, !.isRunning = FALSE, !.isFinished = TRUE,
              !.wasPlayed = (s.run = "forward"), !.wasRewound = (s.run = "backward"),
              !.usingFinish = FALSE, !.run = "none"]

sequencePause(s) ==
    IF ~s.isRunning THEN s ELSE [s EXCEPT !.isRunning = FALSE, !.isPaused = TRUE]

sequenceUnpause(s) ==
    IF ~s.isPaused THEN s ELSE [s EXCEPT !.isRunning = TRUE, !.isPaused = FALSE]

sequenceFinish(s) ==
    IF s.usingFinish \/ s.isPaused THEN s
    ELSE IF s.inProgress THEN [s EXCEPT !.usingFinish = TRUE]
    ELSE IF ~s.wasPlayed \/ s.wasRewound THEN sequencePlay([s EXCEPT !.usingFinish = TRUE])
    ELSE [s EXCEPT !.usingFinish = TRUE]

PauseInProgress_none(seqs, inProg) == seqs

\* doForInProgressSequences, for each of the three operations the timeline passes
PauseInProgress(seqs, inProg) ==
    [k \in 1..Len(seqs) |-> IF (k - 1) \in inProg THEN sequencePause(seqs[k]) ELSE seqs[k]]
UnpauseInProgress(seqs, inProg) ==
    [k \in 1..Len(seqs) |-> IF (k - 1) \in inProg THEN sequenceUnpause(seqs[k]) ELSE seqs[k]]
FinishInProgress(seqs, inProg) ==
    [k \in 1..Len(seqs) |-> IF (k - 1) \in inProg THEN sequenceFinish(seqs[k]) ELSE seqs[k]]

\* seqs[k] of the code is an object (not undefined)
Defined(seqs, k) == k \in 0..(Len(seqs) - 1)

\* the condition of continueAutoplayForward / continueAutoplayBackward (lines 1163, 1169)
AutoplayLink(seqs, idx) ==
    \/ Defined(seqs, idx - 1) /\ seqs[idx].autoplaysNextSequence
    \/ Defined(seqs, idx) /\ seqs[idx + 1].autoplays

\* stepForward up to its await (lines 786-794); ok is FALSE when toPlay is undefined
BeginStepForward(seqs, inProg, idx) ==
    IF ~Defined(seqs, idx)
    THEN [ok |-> FALSE, seqs |-> seqs, inProg |-> inProg, idx |-> idx, pos |-> idx,
          ready |-> "no"]
    ELSE [ok |-> TRUE, seqs |-> [seqs EXCEPT ![idx + 1] = sequencePlay(@)],
          inProg |-> inProg \cup {idx}, idx |-> idx, pos |-> idx,
          ready |-> IF seqs[idx + 1].inProgress THEN "atCall" ELSE "no"]

\* stepBackward up to its await (lines 813-822): the index is decremented first
BeginStepBackward(seqs, inProg, idx) ==
    IF ~Defined(seqs, idx - 1)
    THEN [ok |-> FALSE, seqs |-> seqs, inProg |-> inProg, idx |-> idx - 1,
          pos |-> idx - 1, ready |-> "no"]
    ELSE [ok |-> TRUE, seqs |-> [seqs EXCEPT ![idx] = sequenceRewind(@)],
          inProg |-> inProg \cup {idx - 1}, idx |-> idx - 1, pos |-> idx - 1,
          ready |-> IF seqs[idx].inProgress THEN "atCall" ELSE "no"]

BeginStep(dir, seqs, inProg, idx) ==
    IF dir = "forward" THEN BeginStepForward(seqs, inProg, idx)
    ELSE BeginStepBackward(seqs, inProg, idx)

autoplayNext_never(seqs, idx) == "false"

\* lines 798-801, idx being the index already incremented
autoplayNext(seqs, idx) ==
    IF idx = Len(seqs) THEN "false"
    ELSE IF ~Defined(seqs, idx - 1) THEN "TypeError"
    ELSE IF seqs[idx].autoplaysNextSequence THEN "true"
    ELSE IF ~Defined(seqs, idx) THEN "TypeError"
    ELSE IF seqs[idx + 1].autoplays THEN "true" ELSE "false"

\* lines 825-828: idx is the loaded index now, prevSeqIndex the one rewound
autorewindPrevious(seqs, idx, prevSeqIndex) ==
    IF idx = 0 THEN "false"
    ELSE IF ~Defined(seqs, prevSeqIndex - 1) THEN "TypeError"
    ELSE IF seqs[prevSeqIndex].autoplaysNextSequence THEN "true"
    ELSE IF ~Defined(seqs, prevSeqIndex) THEN "TypeError"
    ELSE IF seqs[prevSeqIndex + 1].autoplays THEN "true" ELSE "false"

\* a stepForward that does not move the loaded index
EndStep_noAdvance(dir, seqs, inProg, idx, pos) ==
    [inProg |-> inProg \ {pos}, idx |-> idx,
     continueOn |-> IF dir = "forward" THEN autoplayNext(seqs, idx + 1)
                    ELSE autorewindPrevious(seqs, idx, pos)]

\* stepForward / stepBackward from their await on (lines 795-803, 823-830)
EndStep(dir, seqs, inProg, idx, pos) ==
    IF dir = "forward"
    THEN [inProg |-> inProg \ {pos}, idx |-> idx + 1,
          continueOn |-> autoplayNext(seqs, idx + 1)]
    ELSE [inProg |-> inProg \ {pos}, idx |-> idx,
          continueOn |-> autorewindPrevious(seqs, idx, pos)]

Throws_atBeginning(op, error) ==
    /\ lastEvent' = Event(op, error)
    /\ loadedSeqIndex' = 0
    /\ UNCHANGED <<animSequences, inProgressSequences, isAnimating, isJumping,
                   isPaused, skippingOn, stepCall, jumpCall>>

\* an operation that throws (or rejects) and changes nothing
Throws(op, error) ==
    /\ lastEvent' = Event(op, error)
    /\ UNCHANGED tlState

StepEvent(result) ==
    [Event("step", result) EXCEPT !.from = stepCall.from, !.mode = stepCall.dir,
                                  !.clean = stepCall.clean]

\* AnimTimeline.step, up to the await of its first stepForward / stepBackward
step(direction) ==
    /\ CallAllowed
    /\ IF isPaused THEN Throws("step", "Error: paused")
       ELSE IF isAnimating THEN Throws("step", "Error: animating")
       ELSE IF (direction = "forward" /\ atEnd) \/ (direction = "backward" /\ atBeginning)
       THEN Throws("step", "rejected: edge")
       ELSE LET b == BeginStep(direction, animSequences, inProgressSequences, loadedSeqIndex)
            IN  /\ isAnimating' = TRUE
                /\ animSequences' = b.seqs
                /\ inProgressSequences' = b.inProg
                /\ loadedSeqIndex' = b.idx
                /\ jumpCall' = IF jumpCall.at = "none" THEN jumpCall
                               ELSE [jumpCall EXCEPT !.clean = FALSE]
                /\ IF b.ok
                   THEN /\ stepCall' = [at |-> "await", dir |-> direction, pos |-> b.pos,
                                        ready |-> b.ready,
                                        from |-> IF jumpCall.at = "none"
                                                 THEN loadedSeqIndex ELSE 0,
                                        clean |-> jumpCall.at = "none"]
                        /\ lastEvent' = Event("none", "none")
                   ELSE /\ stepCall' = NoStepCall
                        /\ lastEvent' = Event("step", "TypeError")
                /\ UNCHANGED <<isJumping, isPaused, skippingOn>>
    /\ UNCHANGED seqVars

\* step() resumes when the sequence it awaits has finished: the rest of
\* stepForward / stepBackward, and the do-while of lines 759 / 767
stepResume ==
    /\ ~Halted
    /\ stepCall.at = "await"
    /\ stepCall.ready # "no"
    /\ LET e == EndStep(stepCall.dir, animSequences, inProgressSequences, loadedSeqIndex,
                        stepCall.pos)
           b == BeginStep(stepCall.dir, animSequences, e.inProg, e.idx)
       IN  IF e.continueOn = "TypeError"
           THEN /\ inProgressSequences' = e.inProg
                /\ loadedSeqIndex' = e.idx
                /\ stepCall' = NoStepCall
                /\ lastEvent' = StepEvent("TypeError")
                /\ UNCHANGED <<animSequences, isAnimating>>
           ELSE IF e.continueOn = "true"
           THEN /\ animSequences' = b.seqs
                /\ inProgressSequences' = b.inProg
                /\ loadedSeqIndex' = b.idx
                /\ IF b.ok
                   THEN /\ stepCall' = [stepCall EXCEPT !.pos = b.pos, !.ready = b.ready]
                        /\ lastEvent' = Event("none", "none")
                   ELSE /\ stepCall' = NoStepCall
                        /\ lastEvent' = StepEvent("TypeError")
                /\ UNCHANGED isAnimating
           ELSE /\ inProgressSequences' = e.inProg
                /\ loadedSeqIndex' = e.idx
                /\ isAnimating' = FALSE
                /\ stepCall' = NoStepCall
                /\ lastEvent' = StepEvent("resolved")
                /\ UNCHANGED animSequences
    /\ UNCHANGED <<isJumping, isPaused, skippingOn, jumpCall>>
    /\ UNCHANGED <<seqVars, callsMade>>

\* the run of the sequence at index p over its clips comes to its end
sequenceComplete(p) ==
    /\ ~Halted
    /\ ~MicrotaskPending
    /\ animSequences[p + 1].inProgress
    /\ animSequences[p + 1].isRunning
    /\ animSequences' = [animSequences EXCEPT ![p + 1] = sequenceDone(@)]
    /\ stepCall' = IF stepCall.at = "await" /\ stepCall.pos = p
                   THEN [stepCall EXCEPT !.ready = "completed"] ELSE stepCall
    /\ jumpCall' = IF jumpCall.at = "stepping" /\ jumpCall.pos = p
                   THEN [jumpCall EXCEPT !.ready = "completed"] ELSE jumpCall
    /\ lastEvent' = Event("none", "none")
    /\ UNCHANGED <<loadedSeqIndex, inProgressSequences, isAnimating, isJumping, isPaused,
                   skippingOn>>
    /\ UNCHANGED <<seqVars, callsMade>>

\* the loops of lines 1176 and 1195: the step that takes the index towards the target
ToTargetMove(idx, jc) ==
    IF jc.phase # "toTarget" THEN "none"
    ELSE IF jc.branch = "forward" /\ idx < jc.target THEN "forward"
    ELSE IF jc.branch = "backward" /\ idx > jc.target THEN "backward"
    ELSE "none"

\* the switch of lines 1177-1189 / 1196-1206 over continueAutoplayForward / Backward
AutoplayMove(seqs, idx, jc) ==
    IF jc.detect = "forward" /\ idx # Len(seqs) /\ AutoplayLink(seqs, idx) THEN "forward"
    ELSE IF jc.detect = "backward" /\ idx # 0 /\ AutoplayLink(seqs, idx) THEN "backward"
    ELSE "none"

JumpMove(seqs, idx, jc) ==
    IF ToTargetMove(idx, jc) # "none" THEN ToTargetMove(idx, jc)
    ELSE AutoplayMove(seqs, idx, jc)

JumpEvent(jc, result) ==
    [Event("jumpTo", result) EXCEPT !.target = jc.target, !.mode = jc.detect,
                                    !.clean = jc.clean]

\* a jump that forgets the pause it suspended
JumpFinish_leftUnpaused(seqs, inProg, idx, paused, jc) ==
    /\ animSequences' = seqs
    /\ inProgressSequences' = inProg
    /\ loadedSeqIndex' = idx
    /\ isPaused' = paused
    /\ isJumping' = FALSE
    /\ jumpCall' = NoJumpCall
    /\ lastEvent' = JumpEvent(jc, "resolved")

\* lines 1210-1214: the jump restores the pause and resolves
JumpFinish(seqs, inProg, idx, paused, jc) ==
    /\ animSequences' = IF jc.wasPaused THEN PauseInProgress(seqs, inProg) ELSE seqs
    /\ inProgressSequences' = inProg
    /\ loadedSeqIndex' = idx
    /\ isPaused' = IF jc.wasPaused THEN TRUE ELSE paused
    /\ isJumping' = FALSE
    /\ jumpCall' = NoJumpCall
    /\ lastEvent' = JumpEvent(jc, "resolved")

\* jumpTo, from line 1173 or from one of its awaits, up to its next await;
\* sync tells that this is the part jumpTo runs before it first returns
JumpDrive(seqs, inProg, idx, paused, jc, sync) ==
    LET move == JumpMove(seqs, idx, jc)
        phase == IF ToTargetMove(idx, jc) # "none" THEN "toTarget" ELSE "auto"
        b == BeginStep(move, seqs, inProg, idx)
    IN  IF move = "none"
        THEN IF sync /\ jc.detect # "none"
             THEN \* suspended at the await of a continueAutoplay that had nothing to play
                  /\ animSequences' = seqs
                  /\ inProgressSequences' = inProg
                  /\ loadedSeqIndex' = idx
                  /\ isPaused' = paused
                  /\ isJumping' = TRUE
                  /\ jumpCall' = [jc EXCEPT !.at = "settle", !.phase = "auto"]
                  /\ lastEvent' = Event("none", "none")
             ELSE JumpFinish(seqs, inProg, idx, paused, jc)
        ELSE /\ animSequences' = b.seqs
             /\ inProgressSequences' = b.inProg
             /\ loadedSeqIndex' = b.idx
             /\ isPaused' = paused
             /\ isJumping' = TRUE
             /\ IF b.ok
                THEN /\ jumpCall' = [jc EXCEPT !.at = "stepping", !.dir = move,
                                               !.pos = b.pos, !.ready = b.ready,
                                               !.phase = phase]
                     /\ lastEvent' = Event("none", "none")
                ELSE /\ jumpCall' = NoJumpCall
                     /\ lastEvent' = JumpEvent(jc, "TypeError")

\* lines 1126-1135: 'beginning', 'end' or a number (the offset goes with the two words only)
TargetIndex(position, targetOffset) ==
    IF position.word = "beginning" THEN 0 + targetOffset
    ELSE IF position.word = "end" THEN numSequences + targetOffset
    ELSE position.number

\* AnimTimeline.unpause over the sequences (lines 898-899)
Unpaused(seqs, inProg) ==
    IF skippingOn THEN FinishInProgress(UnpauseInProgress(seqs, inProg), inProg)
    ELSE UnpauseInProgress(seqs, inProg)

\* jumpTo from its bounds check (line 1144) up to its first await
JumpStart(targetIndex, autoplayDetection) ==
    IF targetIndex < 0 \/ targetIndex > numSequences
    THEN Throws("jumpTo", "RangeError")
    ELSE /\ JumpDrive(IF isPaused THEN Unpaused(animSequences, inProgressSequences)
                                  ELSE animSequences,
                      inProgressSequences, loadedSeqIndex, FALSE,
                      [NoJumpCall EXCEPT
                          !.target = targetIndex,
                          !.detect = autoplayDetection,
                          !.branch = IF loadedSeqIndex <= targetIndex
                                     THEN "forward" ELSE "backward",
                          !.phase = "toTarget",
                          !.wasPaused = isPaused,
                          !.clean = TRUE],
                      TRUE)
         /\ UNCHANGED <<isAnimating, skippingOn, stepCall>>

\* AnimTimeline.jumpToPosition: jumpTo up to its first await
jumpToPosition(position, targetOffset, autoplayDetection) ==
    /\ CallAllowed
    /\ IF isAnimating THEN Throws("jumpTo", "Error: animating")
       ELSE IF isJumping THEN Throws("jumpTo", "Error: jumping")
       ELSE JumpStart(TargetIndex(position, targetOffset), autoplayDetection)
    /\ UNCHANGED seqVars

\* jumpTo() resumes from the await of a stepForward / stepBackward or of a continueAutoplay
jumpResume ==
    /\ ~Halted
    /\ \/ /\ jumpCall.at = "settle"
          /\ JumpFinish(animSequences, inProgressSequences, loadedSeqIndex, isPaused, jumpCall)
       \/ /\ jumpCall.at = "stepping"
          /\ jumpCall.ready # "no"
          /\ LET e == EndStep(jumpCall.dir, animSequences, inProgressSequences,
                              loadedSeqIndex, jumpCall.pos)
             IN  IF e.continueOn = "TypeError"
                 THEN /\ inProgressSequences' = e.inProg
                      /\ loadedSeqIndex' = e.idx
                      /\ jumpCall' = NoJumpCall
                      /\ lastEvent' = JumpEvent(jumpCall, "TypeError")
                      /\ UNCHANGED <<animSequences, isPaused, isJumping>>
                 ELSE JumpDrive(animSequences, e.inProg, e.idx, isPaused, jumpCall, FALSE)
    /\ UNCHANGED <<isAnimating, skippingOn, stepCall>>
    /\ UNCHANGED <<seqVars, callsMade>>

\* AnimTimeline.pause
pause ==
    /\ CallAllowed
    /\ isPaused' = TRUE
    /\ animSequences' = PauseInProgress(animSequences, inProgressSequences)
    /\ lastEvent' = Event("none", "none")
    /\ UNCHANGED <<loadedSeqIndex, inProgressSequences, isAnimating, isJumping, skippingOn,
                   stepCall, jumpCall>>
    /\ UNCHANGED seqVars

\* AnimTimeline.unpause
unpause ==
    /\ CallAllowed
    /\ isPaused' = FALSE
    /\ animSequences' = Unpaused(animSequences, inProgressSequences)
    /\ lastEvent' = Event("none", "none")
    /\ UNCHANGED <<loadedSeqIndex, inProgressSequences, isAnimating, isJumping, skippingOn,
                   stepCall, jumpCall>>
    /\ UNCHANGED seqVars

\* AnimTimeline.turnSkippingOn
turnSkippingOn ==
    /\ CallAllowed
    /\ skippingOn' = TRUE
    /\ animSequences' = IF isAnimating /\ ~isPaused
                        THEN FinishInProgress(animSequences, inProgressSequences)
                        ELSE animSequences
    /\ lastEvent' = Event("none", "none")
    /\ UNCHANGED <<loadedSeqIndex, inProgressSequences, isAnimating, isJumping, isPaused,
                   stepCall, jumpCall>>
    /\ UNCHANGED seqVars

\* AnimTimeline.turnSkippingOff
turnSkippingOff ==
    /\ CallAllowed
    /\ skippingOn' = FALSE
    /\ lastEvent' = Event("none", "none")
    /\ UNCHANGED <<animSequences, loadedSeqIndex, inProgressSequences, isAnimating, isJumping,
                   isPaused, stepCall, jumpCall>>
    /\ UNCHANGED seqVars

\* the sequences handed to addSequences / addSequencesAt: new ones with any
\* autoplay options, one that is part of some timeline, one that was played
AddCandidates ==
    {[seq |-> NewSequence(a, b), hasParent |-> FALSE] : a, b \in BOOLEAN}
    \cup {[seq |-> NewSequence(FALSE, FALSE), hasParent |-> TRUE]}
    \cup {[seq |-> [NewSequence(FALSE, FALSE) EXCEPT !.isFinished = TRUE, !.wasPlayed = TRUE],
           hasParent |-> FALSE]}

\* one sequence, or a new sequence without options and one more
AddArguments ==
    {<<c>> : c \in AddCandidates}
    \cup {<<[seq |-> NewSequence(FALSE, FALSE), hasParent |-> FALSE], c>> : c \in AddCandidates}

\* the sequence's getStatus('lockedStructure'): in progress or in a forward finished state
sequenceLockedStructure(s) == s.inProgress \/ (s.isFinished /\ s.wasPlayed)

InvalidChild(c) == c.hasParent \/ sequenceLockedStructure(c.seq)

SequencesOf(cands) == [k \in 1..Len(cands) |-> cands[k].seq]

\* Array.prototype.splice(index, 0, ...items) for index >= 0
SpliceIn(seqs, index, items) ==
    LET i == Min(index, Len(seqs))
    IN  SubSeq(seqs, 1, i) \o items \o SubSeq(seqs, i + 1, Len(seqs))

\* Array.prototype.splice(index, deleteCount) for index >= 0
SpliceOut(seqs, index, deleteCount) ==
    LET i == Min(index, Len(seqs))
        d == Max(0, Min(deleteCount, Len(seqs) - i))
    IN  SubSeq(seqs, 1, i) \o SubSeq(seqs, i + d + 1, Len(seqs))

StructureEvent(op, result, index) == [Event(op, result) EXCEPT !.index = index]

\* AnimTimeline.addSequences
addSequences(cands) ==
    /\ CallAllowed
    /\ numSequences + Len(cands) <= MaxSeqs
    /\ IF lockedStructure THEN Throws("addSequences", "LockedOperationError")
       ELSE IF \E k \in 1..Len(cands) : InvalidChild(cands[k])
       THEN Throws("addSequences", "InvalidChildError")
       ELSE /\ animSequences' = animSequences \o SequencesOf(cands)
            /\ lastEvent' = StructureEvent("addSequences", "ok", numSequences)
            /\ UNCHANGED <<loadedSeqIndex, inProgressSequences, isAnimating, isJumping,
                           isPaused, skippingOn, stepCall, jumpCall>>
    /\ UNCHANGED seqVars

\* AnimTimeline.addSequencesAt
addSequencesAt(index, cands) ==
    /\ CallAllowed
    /\ numSequences + Len(cands) <= MaxSeqs
    /\ IF lockedStructure THEN Throws("addSequencesAt", "LockedOperationError")
       ELSE IF index <= loadedSeqIndex - 1
       THEN Throws("addSequencesAt", "TimeParadoxError")
       ELSE IF \E k \in 1..Len(cands) : InvalidChild(cands[k])
       THEN Throws("addSequencesAt", "InvalidChildError")
       ELSE /\ animSequences' = SpliceIn(animSequences, index, SequencesOf(cands))
            /\ lastEvent' = StructureEvent("addSequencesAt", "ok", index)
            /\ UNCHANGED <<loadedSeqIndex, inProgressSequences, isAnimating, isJumping,
                           isPaused, skippingOn, stepCall, jumpCall>>
    /\ UNCHANGED seqVars

\* the loop of removeSequences (lines 642-662) over the sequences still to remove;
\* a sequence is named by the index it had when the call was made, -1 for a
\* sequence that is not in the timeline; removed holds the indices taken out so far
RECURSIVE RemoveLoop(_, _, _, _)
RemoveLoop(seqs, targets, removed, idx) ==
    IF targets = <<>> THEN [seqs |-> seqs, result |-> "ok"]
    ELSE LET t == Head(targets)
             index == IF t = -1 \/ t \in removed THEN -1
                      ELSE t - Cardinality({r \in removed : r < t})
         IN  IF index = -1 THEN [seqs |-> seqs, result |-> "warn"]
             ELSE IF index <= idx - 1 THEN [seqs |-> seqs, result |-> "TimeParadoxError"]
             ELSE RemoveLoop(SpliceOut(seqs, index, 1), Tail(targets),
                             removed \cup {t}, idx)

RemoveArguments == UNION {[1..n -> -1..(numSequences - 1)] : n \in 1..2}

\* AnimTimeline.removeSequences
removeSequences(targets) ==
    /\ CallAllowed
    /\ IF lockedStructure THEN Throws("removeSequences", "LockedOperationError")
       ELSE LET r == RemoveLoop(animSequences, targets, {}, loadedSeqIndex)
            IN  /\ animSequences' = r.seqs
                /\ lastEvent' = StructureEvent("removeSequences", r.result, targets[1])
                /\ UNCHANGED <<loadedSeqIndex, inProgressSequences, isAnimating, isJumping,
                               isPaused, skippingOn, stepCall, jumpCall>>
    /\ UNCHANGED seqVars

\* AnimTimeline.removeSequencesAt
removeSequencesAt(startIndex, endIndex) ==
    /\ CallAllowed
    /\ IF lockedStructure THEN Throws("removeSequencesAt", "LockedOperationError")
       ELSE IF startIndex <= loadedSeqIndex - 1
       THEN Throws("removeSequencesAt", "TimeParadoxError")
       ELSE /\ animSequences' = SpliceOut(animSequences, startIndex, endIndex - startIndex)
            /\ lastEvent' = StructureEvent("removeSequencesAt", "ok", startIndex)
            /\ UNCHANGED <<loadedSeqIndex, inProgressSequences, isAnimating, isJumping,
                           isPaused, skippingOn, stepCall, jumpCall>>
    /\ UNCHANGED seqVars

Directions == {"forward", "backward"}
AutoplayDetections == {"forward", "backward", "none"}
\* jumpToPosition's arguments: a number, or 'beginning' / 'end' with an offset
JumpArguments ==
    [position : {[word |-> "number", number |-> k] : k \in -1..(MaxSeqs + 1)}
                \cup {[word |-> "beginning", number |-> 0], [word |-> "end", number |-> 0]},
     targetOffset : {-1, 0, 1}]

Init ==
    /\ ClipIdle
    /\ StructureIdle
    /\ animClips = <<>>
    /\ fullStartTime = <<>>
    /\ groupings = NoGroupings
    /\ RunIdle
    /\ TimelineIdle
    /\ FinishIdle

Next ==
    \/ \E direction \in Directions : step(direction)
    \/ stepResume
    \/ \E p \in 0..(numSequences - 1) : sequenceComplete(p)
    \/ \E a \in JumpArguments, autoplayDetection \in AutoplayDetections :
          jumpToPosition(a.position, a.targetOffset, autoplayDetection)
    \/ jumpResume
    \/ pause
    \/ unpause
    \/ turnSkippingOn
    \/ turnSkippingOff
    \/ \E cands \in AddArguments : addSequences(cands)
    \/ \E index \in 0..MaxSeqs, cands \in AddArguments : addSequencesAt(index, cands)
    \/ \E targets \in RemoveArguments : removeSequences(targets)
    \/ \E startIndex \in -1..numSequences, count \in 0..2 :
          removeSequencesAt(startIndex, startIndex + count)

Spec == Init /\ [][Next]_vars

(***************************************************************************)
(* SpecJump: jumps and steps over a timeline that is already built         *)
(*                                                                         *)
(* The sequences carry their tag.  The timeline starts at any loaded       *)
(* index, the sequences before it played, paused or not, skipping or not;  *)
(* its structure is left alone.  A tag to search for is a string or a      *)
(* RegExp, the latter kept as the set of the tags it matches.  The first   *)
(* call is a jump or a step, the calls that follow are steps, each made    *)
(* when the call before it has settled.                                    *)
(***************************************************************************)
\* AnimSequence.tag: '' unless the sequence is given one
DefaultTag == ""
Tags == {DefaultTag, "a"}

\* the sequence s with tag t
Tagged(s, t) ==
    [f \in DOMAIN s \cup {"tag"} |-> IF f = "tag" THEN t ELSE s[f]]

\* the strings and regular expressions a search is made with
TagPatterns ==
    {[kind |-> "string", text |-> t, matches |-> {}] : t \in Tags \cup {"b"}}
    \cup {[kind |-> "RegExp", text |-> "", matches |-> {DefaultTag}]}

\* line 1111: sequenceMatchesTag
sequenceMatchesTag(sequence, tag) ==
    IF tag.kind = "RegExp" THEN sequence.tag \in tag.matches ELSE sequence.tag = tag.text

\* line 1087: if (tag), false for the empty string
Truthy(tag) == tag.kind = "RegExp" \/ tag.text # ""

Searches == {"forward", "backward", "forward-from-beginning", "backward-from-end"}

isBackwardSearch(search) == search \in {"backward", "backward-from-end"}

\* lines 1093-1110
fromIndex(search, searchOffset) ==
    IF search = "forward" THEN Max(loadedSeqIndex + 1 + searchOffset, 0)
    ELSE IF search = "backward" THEN Max(loadedSeqIndex - 1 + searchOffset, 0)
    ELSE IF search = "forward-from-beginning" THEN Max(searchOffset, 0)
    ELSE Max(numSequences - 1 + searchOffset, 0)

\* the least / greatest number of a set of indices
Lowest(S) == CHOOSE i \in S : \A j \in S : i <= j
Highest(S) == CHOOSE i \in S : \A j \in S : i >= j

\* lines 1113-1118: the two loops; index is -1 when nothing matches, threw
\* is true when the backward loop starts past the list and reads the tag of
\* undefined
initialIndex(tag, search, searchOffset) ==
    LET from == fromIndex(search, searchOffset)
        found == {i \in 0..(numSequences - 1) :
                     /\ sequenceMatchesTag(animSequences[i + 1], tag)
                     /\ IF isBackwardSearch(search) THEN i <= from ELSE i >= from}
    IN  [threw |-> isBackwardSearch(search) /\ from >= numSequences,
         index |-> IF found = {} THEN -1
                   ELSE IF isBackwardSearch(search) THEN Highest(found)
                   ELSE Lowest(found)]

\* AnimTimeline.jumpToSequenceTag: jumpTo up to its first await
jumpToSequenceTag(tag, search, searchOffset, targetOffset, autoplayDetection) ==
    /\ CallAllowed
    /\ IF isAnimating THEN Throws("jumpTo", "Error: animating")
       ELSE IF isJumping THEN Throws("jumpTo", "Error: jumping")
       ELSE IF ~Truthy(tag)
       THEN \* the branch of positions (lines 1124-1137) with position undefined
            Throws("jumpTo", "RangeError: position")
       ELSE IF initialIndex(tag, search, searchOffset).threw
       THEN Throws("jumpTo", "TypeError: undefined")
       ELSE IF initialIndex(tag, search, searchOffset).index = -1
       THEN Throws("jumpTo", "Error: tag not found")
       ELSE JumpStart(initialIndex(tag, search, searchOffset).index + targetOffset,
                      autoplayDetection)
    /\ UNCHANGED seqVars

\* a sequence that was played by a step or a jump
Played(s) == sequenceDone(sequencePlay(s))

\* the arguments of jumpToSequenceTag, at most one of the offsets given
TagJumpArguments ==
    {a \in [tag : TagPatterns, search : Searches, searchOffset : {-1, 0, 1},
            targetOffset : {-1, 0, 1}, autoplayDetection : AutoplayDetections] :
        a.searchOffset = 0 \/ a.targetOffset = 0}

InitJump ==
    /\ ClipIdle
    /\ StructureIdle
    /\ animClips = <<>>
    /\ fullStartTime = <<>>
    /\ groupings = NoGroupings
    /\ RunIdle
    /\ FinishIdle
    /\ \E n \in 0..MaxSeqs :
          \E built \in [1..n -> {Tagged(NewSequence(a, FALSE), t) : a \in BOOLEAN, t \in Tags}] :
             \E idx \in 0..n :
                /\ animSequences = [k \in 1..n |->
                                       IF k <= idx THEN Played(built[k]) ELSE built[k]]
                /\ loadedSeqIndex = idx
    /\ inProgressSequences = {}
    /\ isAnimating = FALSE
    /\ isJumping = FALSE
    /\ isPaused \in BOOLEAN
    /\ skippingOn \in BOOLEAN
    /\ ~(isPaused /\ skippingOn)
    /\ stepCall = NoStepCall
    /\ jumpCall = NoJumpCall
    /\ lastEvent = Event("none", "none")
    /\ callsMade = 0

\* the first call is a jump or a step, the calls after it are steps made
\* while no call is pending
NextJump ==
    \/ \E a \in TagJumpArguments :
          /\ callsMade = 0
          /\ jumpToSequenceTag(a.tag, a.search, a.searchOffset, a.targetOffset,
                               a.autoplayDetection)
    \/ \E a \in JumpArguments, autoplayDetection \in AutoplayDetections :
          /\ callsMade = 0
          /\ jumpToPosition(a.position, a.targetOffset, autoplayDetection)
    \/ jumpResume
    \/ \E p \in 0..(numSequences - 1) : sequenceComplete(p)
    \/ \E direction \in Directions :
          /\ stepCall = NoStepCall /\ jumpCall = NoJumpCall
          /\ step(direction)
    \/ stepResume

SpecJump == InitJump /\ [][NextJump]_vars

(***************************************************************************)
(* Claims about the timeline                                               *)
(***************************************************************************)
StructureOps == {"addSequences", "addSequencesAt", "removeSequences", "removeSequencesAt"}

\* C3: in every reachable state the loaded index lies within the timeline:
\* 0 <= loadedSeqIndex <= numSequences.
C3_IndexInBounds == loadedSeqIndex >= 0 /\ loadedSeqIndex <= numSequences

\* the boundary at index e (0 < e < n) joins its two sequences: the sequence
\* before it autoplays the next one, or the sequence after it autoplays
Joined(seqs, e) == seqs[e].autoplaysNextSequence \/ seqs[e + 1].autoplays

\* e is an index a forward or backward step stops at
ForwardStop(seqs, e) == e = Len(seqs) \/ ~Joined(seqs, e)
BackwardStop(seqs, e) == e = 0 \/ ~Joined(seqs, e)

\* the least stop above s, the greatest stop below s
ForwardEnd(seqs, s) ==
    CHOOSE e \in (s + 1)..Len(seqs) :
        ForwardStop(seqs, e) /\ \A f \in (s + 1)..(e - 1) : ~ForwardStop(seqs, f)
BackwardEnd(seqs, s) ==
    CHOOSE e \in 0..(s - 1) :
        BackwardStop(seqs, e) /\ \A f \in (e + 1)..(s - 1) : ~BackwardStop(seqs, f)

\* C4: a step made from loaded index s while no call is pending and the
\* timeline is not paused ends, when forward, at the least index e > s that
\* is the end of the timeline or whose boundary joins no sequences, having
\* played the sequences s .. e-1, and when backward at the greatest such
\* index e < s (or the beginning), having rewound the sequences e .. s-1.
C4_StepEndsAtStop ==
    (lastEvent.op = "step" /\ lastEvent.result = "resolved" /\ lastEvent.clean) =>
        IF lastEvent.mode = "forward"
        THEN /\ loadedSeqIndex = ForwardEnd(animSequences, lastEvent.from)
             /\ \A k \in lastEvent.from..(loadedSeqIndex - 1) :
                    animSequences[k + 1].wasPlayed /\ ~animSequences[k + 1].inProgress
        ELSE /\ loadedSeqIndex = BackwardEnd(animSequences, lastEvent.from)
             /\ \A k \in loadedSeqIndex..(lastEvent.from - 1) :
                    animSequences[k + 1].wasRewound /\ ~animSequences[k + 1].inProgress

\* the scenario of the usage notes: the first sequence autoplays the next,
\* the second has no options, the third autoplays; one step from 0 ends at 3
C4_Witness ==
    /\ lastEvent.op = "step" /\ lastEvent.result = "resolved" /\ lastEvent.clean
    /\ lastEvent.mode = "forward" /\ lastEvent.from = 0
    /\ numSequences = 3
    /\ animSequences[1].autoplaysNextSequence /\ ~animSequences[1].autoplays
    /\ ~animSequences[2].autoplaysNextSequence /\ ~animSequences[2].autoplays
    /\ ~animSequences[3].autoplaysNextSequence /\ animSequences[3].autoplays
    /\ loadedSeqIndex = 3

\* C5: a jumpToPosition(k) with the default options resolves with the loaded
\* index at k.
C5_JumpLandsOnTarget ==
    (lastEvent.op = "jumpTo" /\ lastEvent.result = "resolved" /\ lastEvent.mode = "none") =>
        loadedSeqIndex = lastEvent.target

\* the boundary at index e joins sequences, an absent neighbour joining nothing
JoinedOrEdge(seqs, e) ==
    \/ e >= 1 /\ e <= Len(seqs) /\ seqs[e].autoplaysNextSequence
    \/ e >= 0 /\ e < Len(seqs) /\ seqs[e + 1].autoplays

\* where a jump to target t is to end under each autoplay detection
Landing(seqs, t, detect) ==
    IF detect = "forward"
    THEN CHOOSE e \in t..Len(seqs) :
            /\ e = Len(seqs) \/ ~JoinedOrEdge(seqs, e)
            /\ \A f \in t..(e - 1) : ~(f = Len(seqs) \/ ~JoinedOrEdge(seqs, f))
    ELSE IF detect = "backward"
    THEN CHOOSE e \in 0..t :
            /\ e = 0 \/ ~JoinedOrEdge(seqs, e)
            /\ \A f \in (e + 1)..t : ~(f = 0 \/ ~JoinedOrEdge(seqs, f))
    ELSE t

\* C6: a jump to target t resolves with the loaded index at the least e >= t
\* that is the end or joins nothing (detection 'forward'), at the greatest
\* such e <= t or the beginning ('backward'), at t itself ('none').
C6_JumpLandsAfterAutoplay ==
    (lastEvent.op = "jumpTo" /\ lastEvent.result = "resolved") =>
        loadedSeqIndex = Landing(animSequences, lastEvent.target, lastEvent.mode)

\* C7: while the timeline is animating or jumping every structure operation
\* throws LockedOperationError and leaves the list as it was, and no
\* structure operation ever changes the sequences below the loaded index.
C7_StructureGuards ==
    [][ lastEvent'.op \in StructureOps =>
          /\ (isAnimating \/ isJumping) =>
                /\ lastEvent'.result = "LockedOperationError"
                /\ animSequences' = animSequences
          /\ \A k \in 1..numSequences :
                k <= loadedSeqIndex =>
                    k <= Len(animSequences') /\ animSequences'[k] = animSequences[k] ]_vars

\* an insertion below the loaded index was refused
C7_Witness ==
    /\ lastEvent.op = "addSequencesAt"
    /\ lastEvent.result = "TimeParadoxError"
    /\ loadedSeqIndex = 2
    /\ ~isAnimating /\ ~isJumping

C9_PhaseTimes ==
    IsCommitted =>
        \A k \in ClipIds :
            /\ fullStartTime[k] <= activeStartTime(animClips[k], fullStartTime[k])
            /\ activeStartTime(animClips[k], fullStartTime[k])
                  = fullStartTime[k] + animClips[k].delay * TimeScale
            /\ activeFinishTime(animClips[k], fullStartTime[k])
                  = activeStartTime(animClips[k], fullStartTime[k])
                       + animClips[k].duration * TimeScale
            /\ fullFinishTime(animClips[k], fullStartTime[k])
                  = activeFinishTime(animClips[k], fullStartTime[k])
                       + animClips[k].endDelay * TimeScale

\* the clips of forward group g
ClipsOfGroup(g) ==
    {groupings.forwardGroupings[g][k] : k \in 1..Len(groupings.forwardGroupings[g])}

\* C10: after commit a clip of an earlier group is fully finished when a clip
\* of a later group starts, and the first clip of a group other than the
\* first starts at the greatest fullFinishTime of the group before it.
C10_GroupsInOrder ==
    IsCommitted =>
        /\ \A i, j \in ClipIds :
              (i < j /\ GroupOf(i) # GroupOf(j)) =>
                  fullFinishTime(animClips[i], fullStartTime[i]) <= fullStartTime[j]
        /\ \A g \in 2..Len(groupings.forwardGroupings) :
              /\ \A c \in ClipsOfGroup(g - 1) :
                    fullFinishTime(animClips[c], fullStartTime[c])
                       <= fullStartTime[groupings.forwardGroupings[g][1]]
              /\ \E c \in ClipsOfGroup(g - 1) :
                    fullFinishTime(animClips[c], fullStartTime[c])
                       = fullStartTime[groupings.forwardGroupings[g][1]]

\* the first clip of the forward group that holds clip c
FirstOfGroup(c) == groupings.forwardGroupings[GroupOf(c)][1]

\* the delays of the clips a+1 .. b-1, the clips between a and b
RECURSIVE DelaysBetween(_, _, _)
DelaysBetween(cl, a, b) ==
    IF a + 1 >= b THEN 0 ELSE cl[a + 1].delay * TimeScale + DelaysBetween(cl, a + 1, b)

LastGroup == Len(groupings.forwardGroupings)

\* C12 as stated: in a backward run the first clip to begin rewinding is the
\* last clip, in insertion order, of the last group: whenever some clip has
\* begun rewinding, that clip has.
C12_LastInsertedRewindsFirst ==
    (\E c \in ClipIds : RwLaunched(c)) => RwLaunched(Len(animClips))

\* the clip of the last group that is the last to reach its full finish in
\* the forward run: the greatest committed fullFinishTime, and of the clips
\* that share it the last in insertion order
LastToFinish ==
    CHOOSE c \in ClipsOfGroup(LastGroup) :
        \A d \in ClipsOfGroup(LastGroup) :
            \/ fullFinishTime(animClips[d], fullStartTime[d])
                  < fullFinishTime(animClips[c], fullStartTime[c])
            \/ /\ fullFinishTime(animClips[d], fullStartTime[d])
                     = fullFinishTime(animClips[c], fullStartTime[c])
               /\ d <= c

\* C12 amended: in a backward run the first clip to begin rewinding is the
\* clip of the last group with the greatest committed fullFinishTime (the last
\* in insertion order of those that share it): whenever some clip has begun
\* rewinding, that clip has.
C12_LastToFinishRewindsFirst ==
    (\E c \in ClipIds : RwLaunched(c)) => RwLaunched(LastToFinish)

\* a backward run has begun on a group whose first-inserted clip finishes
\* last: that clip alone is rewinding
C12_Witness ==
    /\ seqStatus.inProgress
    /\ Len(animClips) >= 2
    /\ LastToFinish # Len(animClips)
    /\ RwLaunched(LastToFinish)
    /\ \A c \in ClipIds : c # LastToFinish => clipPos[c] = "finished"

\* the place of clip c in the forward active-finish order of its group
ForwardFinishPlace(c) ==
    CHOOSE k \in 1..Len(groupings.activeFinishOrder[GroupOf(c)]) :
        groupings.activeFinishOrder[GroupOf(c)][k] = c

\* C13 as stated: in a backward run the clips of a group finish rewinding
\* their active phases in the reverse of their forward active-finish order:
\* of two clips of a group, the one that finished its active phase first in
\* the forward run has not finished rewinding its active phase while the
\* other has not.
C13_ReverseOfForwardFinish ==
    \A a, b \in ClipIds :
        ( /\ seqStatus.inProgress
          /\ GroupOf(a) = GroupOf(b)
          /\ ForwardFinishPlace(a) < ForwardFinishPlace(b)
          /\ RwActiveEnded(a) )
        => RwActiveEnded(b)

\* C13 amended: in a backward run the clips of a group finish rewinding
\* their active phases in descending order of committed activeStartTime: of
\* two clips of a group, the one whose active phase starts earlier has not
\* finished rewinding its active phase while the other has not.
C13_DescendingActiveStart ==
    \A a, b \in ClipIds :
        ( /\ seqStatus.inProgress
          /\ GroupOf(a) = GroupOf(b)
          /\ activeStartTime(animClips[a], fullStartTime[a])
                < activeStartTime(animClips[b], fullStartTime[b])
          /\ RwActiveEnded(a) )
        => RwActiveEnded(b)

\* a clip whose active phase starts first stands held at the beginning of its
\* active phase while a clip of its group that starts later is still rewinding
C13_Witness ==
    \E a, b \in ClipIds :
        /\ seqStatus.inProgress /\ seqStatus.wasPlayed
        /\ GroupOf(a) = GroupOf(b)
        /\ activeStartTime(animClips[a], fullStartTime[a])
              < activeStartTime(animClips[b], fullStartTime[b])
        /\ clipPos[a] = "rwActiveBegin"
        /\ clipPos[b] \in {"rwEndDelayPhase", "rwActivePhase"}

LaunchedNow ==
    {c \in ClipIds : clipPos[c] = "idle" /\ clipPos'[c] \in {"delayPhase", "pausedAtLaunch"}}

\* C15: once finish() has been called during a run (usingFinish is true),
\* every clip launched later in that run is started in skip mode, with the
\* host's finish() instead of its play().
C15_LaterClipsSkip ==
    [][(seqStatus.inProgress /\ seqStatus.usingFinish)
          => \A c \in LaunchedNow : c \in toldToFinish']_vars

\* C16: every finish() call made while a run is in progress returns the
\* shared fullyFinished promise, which settles only when the run is
\* complete, for the first caller and for every further one.
C16_FinishReturnsFullyFinished ==
    [][( /\ seqStatus.inProgress
         /\ playPc.at \in {"awaitActiveBegin", "awaitAll"}
         /\ finishReturned'.flip # finishReturned.flip )
          => finishReturned'.last = "fullyFinished"]_vars

\* the step is a call of finish()
FinishCalled == finishReturned'.flip # finishReturned.flip

\* C17: finish() on a sequence that is paused or already finishing changes
\* no state and launches nothing; on a sequence that is not in progress and
\* was not played (or was last rewound) it starts a forward play with
\* usingFinish set; on a sequence in progress it tells exactly the clips in
\* progress to finish.
C17_FinishBranches ==
    [][FinishCalled =>
          /\ (seqStatus.isPaused \/ seqStatus.usingFinish)
                => /\ UNCHANGED <<commitVars, runVars, toldToFinish>>
                   /\ LaunchedNow = {}
          /\ ( /\ ~seqStatus.isPaused /\ ~seqStatus.usingFinish
               /\ ~seqStatus.inProgress
               /\ ~seqStatus.wasPlayed \/ seqStatus.wasRewound )
                => /\ seqStatus'.inProgress /\ seqStatus'.usingFinish
                   /\ playPc'.at # "none"
                   /\ groupings'.forwardGroupings[1] # <<>>
                         => LaunchedNow = {groupings'.forwardGroupings[1][1]}
          /\ ( /\ ~seqStatus.isPaused /\ ~seqStatus.usingFinish
               /\ seqStatus.inProgress )
                => /\ seqStatus'.usingFinish
                   /\ toldToFinish' \ toldToFinish = inProgressClips \ toldToFinish
                   /\ inProgressClips \subseteq toldToFinish'
                   /\ LaunchedNow = {}
                   /\ UNCHANGED <<commitVars, inProgressClips, clipPos, playPc>>]_vars

\* finish() was called while two clips were in progress, and both were told to finish
C17_Witness ==
    /\ seqStatus.inProgress /\ seqStatus.usingFinish /\ ~seqStatus.isPaused
    /\ finishReturned.last = "fullyFinished"
    /\ Cardinality(inProgressClips) >= 2
    /\ toldToFinish = inProgressClips
    /\ \E c \in ClipIds : clipPos[c] = "idle"

\* C18: when a phase hook of a clip throws, the clip's play promise rejects,
\* the clip's root (here the sequence) is paused, and the rejection reaches
\* the sequence's play() promise, which rejects.
C18_HookErrorRejectsPlay ==
    (hooks.rejected # {}) ~> (playPc.at = "rejected")

InFlight == isAnimating \/ isJumping

C21_FailedJumpMovesNothing ==
    [][( /\ lastEvent'.op = "jumpTo"
         /\ lastEvent'.result \in {"RangeError", "Error: tag not found"} )
          => UNCHANGED <<loadedSeqIndex, isJumping, isPaused, skippingOn,
                         animSequences, inProgressSequences>>]_vars

\* a jump from the second sequence of a paused timeline has failed on its bounds
C21_Witness ==
    /\ lastEvent.op = "jumpTo" /\ lastEvent.result = "RangeError"
    /\ loadedSeqIndex = 1 /\ numSequences >= 2
    /\ isPaused /\ ~isJumping
    /\ animSequences[1].wasPlayed /\ ~animSequences[2].wasPlayed

\* the indices (counted from 0) of the sequences whose tag is equal to the
\* string, or passes the test of the regular expression
Matching(tag) ==
    {i \in 0..(numSequences - 1) :
        IF tag.kind = "RegExp" THEN animSequences[i + 1].tag \in tag.matches
        ELSE animSequences[i + 1].tag = tag.text}

\* this step starts a jump whose landing index is i
JumpAimsAt(i) ==
    IF jumpCall'.at # "none" THEN jumpCall'.target = i
    ELSE /\ lastEvent'.op = "jumpTo"
         /\ lastEvent'.result = "resolved"
         /\ lastEvent'.target = i

\* this step is a call of jumpTo that throws
JumpRaises ==
    /\ lastEvent'.op = "jumpTo"
    /\ lastEvent'.result \notin {"none", "resolved"}
    /\ jumpCall' = NoJumpCall
    /\ UNCHANGED loadedSeqIndex

\* C22: with both offsets 0, jumpToSequenceTag lands on the lowest index whose
\* sequence matches the tag when it searches 'forward-from-beginning', on the
\* highest when it searches 'backward-from-end', and raises when no sequence
\* matches; this for every tag, the default tag of a sequence included.
C22_SearchFromEnds ==
    [][\A tag \in TagPatterns, detection \in AutoplayDetections :
          /\ (callsMade = 0
              /\ jumpToSequenceTag(tag, "forward-from-beginning", 0, 0, detection))
                => IF Matching(tag) = {} THEN JumpRaises
                   ELSE JumpAimsAt(Lowest(Matching(tag)))
          /\ (callsMade = 0
              /\ jumpToSequenceTag(tag, "backward-from-end", 0, 0, detection))
                => IF Matching(tag) = {} THEN JumpRaises
                   ELSE JumpAimsAt(Highest(Matching(tag)))]_vars

\* the index a position names: 0 for 'beginning', the number of sequences for
\* 'end', the number itself otherwise
PositionIndex(position) ==
    IF position.word = "beginning" THEN 0
    ELSE IF position.word = "end" THEN numSequences
    ELSE position.number

\* C23: targetOffset shifts the landing of every jump: jumpToSequenceTag lands
\* at the matched index plus targetOffset, and jumpToPosition(p, {targetOffset: t})
\* lands at p + t for 'beginning', for 'end' and for every integer p, whenever
\* the sum is within the bounds of the timeline.
C23_OffsetShiftsLanding ==
    [][callsMade = 0 =>
         /\ \A a \in {t \in TagJumpArguments : Truthy(t.tag)} :
               LET found == initialIndex(a.tag, a.search, a.searchOffset)
               IN  ( /\ ~found.threw
                     /\ found.index # -1
                     /\ found.index + a.targetOffset \in 0..numSequences )
                      => \/ JumpAimsAt(found.index + a.targetOffset)
                         \/ ~jumpToSequenceTag(a.tag, a.search, a.searchOffset,
                                               a.targetOffset, a.autoplayDetection)
         /\ \A a \in JumpArguments, detection \in AutoplayDetections :
               PositionIndex(a.position) + a.targetOffset \in 0..numSequences
                  => \/ JumpAimsAt(PositionIndex(a.position) + a.targetOffset)
                     \/ ~jumpToPosition(a.position, a.targetOffset, detection)]_vars

\* the timeline on which only jumpToSequenceTag is called
NextTagJump ==
    \/ \E a \in TagJumpArguments :
          /\ callsMade = 0
          /\ jumpToSequenceTag(a.tag, a.search, a.searchOffset, a.targetOffset,
                               a.autoplayDetection)
    \/ jumpResume
    \/ \E p \in 0..(numSequences - 1) : sequenceComplete(p)

SpecTagJump == InitJump /\ [][NextTagJump]_vars

\* C24: when a jumpToSequenceTag with autoplayDetection 'forward' lands on the
\* sequence at index t, and the sequence at index t + 1 is the only one with
\* an autoplay flag (autoplays), the jump goes on past sequence t and resolves
\* with loadedSeqIndex = t + 1.
C24_ForwardDetectionContinues ==
    ( /\ lastEvent.op = "jumpTo"
      /\ lastEvent.result = "resolved"
      /\ lastEvent.mode = "forward"
      /\ lastEvent.target + 1 < numSequences
      /\ \A k \in 1..numSequences :
            /\ animSequences[k].autoplays <=> (k = lastEvent.target + 2)
            /\ ~animSequences[k].autoplaysNextSequence )
       => loadedSeqIndex = lastEvent.target + 1

NextRoundTrip ==
    \/ callsMade = 0 /\ step("forward")
    \/ /\ callsMade = 1
       /\ lastEvent.op = "step" /\ lastEvent.result = "resolved"
       /\ step("backward")
    \/ \E p \in 0..(numSequences - 1) : sequenceComplete(p)
    \/ stepResume

SpecRoundTrip == InitJump /\ [][NextRoundTrip]_vars

NoAutoplayFlags ==
    \A k \in 1..numSequences :
        ~animSequences[k].autoplays /\ ~animSequences[k].autoplaysNextSequence

\* the sequences below index lo are played, the ones from index hi on are not
\* (indices counted from 0)
PlayedBelow(lo, hi) ==
    /\ \A k \in 1..lo : animSequences[k].wasPlayed /\ ~animSequences[k].wasRewound
    /\ \A k \in (hi + 1)..numSequences :
          ~animSequences[k].wasPlayed /\ ~animSequences[k].wasRewound
    /\ \A k \in 1..numSequences : ~animSequences[k].inProgress

\* C26: on a timeline without autoplays / autoplaysNextSequence, step('forward')
\* made at index s < numSequences and followed, after it resolves, by
\* step('backward') leaves loadedSeqIndex = s: the first step plays sequence s
\* and loads s + 1, the second rewinds sequence s and loads s, and no other
\* sequence is touched.
C26_StepRoundTrip ==
    (NoAutoplayFlags /\ lastEvent.op = "step" /\ lastEvent.result = "resolved") =>
        /\ callsMade = 1 =>
              /\ lastEvent.mode = "forward"
              /\ loadedSeqIndex = lastEvent.from + 1
              /\ PlayedBelow(loadedSeqIndex, loadedSeqIndex)
        /\ callsMade = 2 =>
              /\ lastEvent.mode = "backward"
              /\ loadedSeqIndex = lastEvent.from - 1
              /\ PlayedBelow(loadedSeqIndex, loadedSeqIndex + 1)
              /\ animSequences[loadedSeqIndex + 1].wasRewound
              /\ ~animSequences[loadedSeqIndex + 1].wasPlayed

\* the round trip made from index 1 of three sequences
C26_Witness ==
    /\ NoAutoplayFlags
    /\ callsMade = 2
    /\ lastEvent.op = "step" /\ lastEvent.result = "resolved" /\ lastEvent.mode = "backward"
    /\ numSequences = 3
    /\ loadedSeqIndex = 1
    /\ animSequences[2].wasRewound

\* ---------------------------------------------------------------------------
\* Structure: which sequence holds which clips, which timeline holds which
\* sequences, and the parent pointers. The timelines and sequences of this
\* machine are never played: no structure lock, loadedSeqIndex = 0.
\* ---------------------------------------------------------------------------

\* the longest list of children the machine builds
MaxChildren == 3

\* AnimClip.setLineage
clipSetLineage(l, c, sequence, timeline) ==
    [l EXCEPT !.clipSequence[c] = sequence, !.clipTimeline[c] = timeline]

\* for (const animClip of ...) animClip.setLineage(sequence, timeline)
RECURSIVE clipsSetLineage(_, _, _, _)
clipsSetLineage(l, cs, sequence, timeline) ==
    IF cs = <<>> THEN l
    ELSE clipsSetLineage(clipSetLineage(l, Head(cs), sequence, timeline), Tail(cs),
                         sequence, timeline)

\* AnimSequence.setLineage
sequenceSetLineage(l, S, timeline) ==
    clipsSetLineage([l EXCEPT !.seqTimeline[S] = timeline], l.clips[S], S, timeline)

\* AnimSequence.removeLineage: the sequence and its clips have no timeline any more
sequenceRemoveLineage(l, S) ==
    clipsSetLineage([l EXCEPT !.seqTimeline[S] = undefined], l.clips[S], S, undefined)

\* the lists of one or two objects passed to a call
ListsOf(objects) == UNION {[1..n -> objects] : n \in 1..2}

\* AnimSequence.addClips on the sequence S
addClipsTo(S, cs) ==
    /\ Len(lineage.clips[S]) + Len(cs) <= MaxChildren
    /\ lineage' = [clipsSetLineage(lineage, cs, S, lineage.seqTimeline[S])
                      EXCEPT !.clips[S] = @ \o cs, !.result = "ok"]
    /\ UNCHANGED playbackVars

\* AnimSequence.addClipsAt on the sequence S
addClipsAtIn(S, index, cs) ==
    /\ Len(lineage.clips[S]) + Len(cs) <= MaxChildren
    /\ lineage' = [clipsSetLineage(lineage, cs, S, lineage.seqTimeline[S])
                      EXCEPT !.clips[S] = SpliceIn(@, index, cs), !.result = "ok"]
    /\ UNCHANGED playbackVars

\* the loop of addSequences / addSequencesAt: every sequence is checked and
\* given its lineage in turn; thrown tells that the loop ended in a throw
RECURSIVE AddLoop(_, _, _)
AddLoop(l, T, ss) ==
    IF ss = <<>> THEN [l |-> l, thrown |-> FALSE]
    ELSE IF l.seqTimeline[Head(ss)] # undefined THEN [l |-> l, thrown |-> TRUE]
    ELSE AddLoop(sequenceSetLineage(l, Head(ss), T), T, Tail(ss))

\* AnimTimeline.addSequences on the timeline T
addSequencesTo(T, ss) ==
    /\ Len(lineage.sequences[T]) + Len(ss) <= MaxChildren
    /\ LET r == AddLoop(lineage, T, ss)
       IN  lineage' = IF r.thrown THEN [r.l EXCEPT !.result = "InvalidChildError"]
                      ELSE [r.l EXCEPT !.sequences[T] = @ \o ss, !.result = "ok"]
    /\ UNCHANGED playbackVars

\* AnimTimeline.addSequencesAt on the timeline T
addSequencesAtIn(T, index, ss) ==
    /\ Len(lineage.sequences[T]) + Len(ss) <= MaxChildren
    /\ LET r == AddLoop(lineage, T, ss)
       IN  lineage' = IF r.thrown THEN [r.l EXCEPT !.result = "InvalidChildError"]
                      ELSE [r.l EXCEPT !.sequences[T] = SpliceIn(@, index, ss),
                                       !.result = "ok"]
    /\ UNCHANGED playbackVars

\* AnimTimeline.findSequenceIndex (counted from 0, -1 when absent)
findSequenceIndex(l, T, S) ==
    IF \E k \in 1..Len(l.sequences[T]) : l.sequences[T][k] = S
    THEN Lowest({k \in 1..Len(l.sequences[T]) : l.sequences[T][k] = S}) - 1
    ELSE -1

\* the loop of removeSequences: it returns at the first sequence that is not
\* in the timeline
RECURSIVE RemoveFromLoop(_, _, _)
RemoveFromLoop(l, T, ss) ==
    IF ss = <<>> THEN [l EXCEPT !.result = "ok"]
    ELSE IF findSequenceIndex(l, T, Head(ss)) = -1 THEN [l EXCEPT !.result = "warn"]
    ELSE RemoveFromLoop(
             sequenceRemoveLineage(
                 [l EXCEPT !.sequences[T] = SpliceOut(@, findSequenceIndex(l, T, Head(ss)), 1)],
                 Head(ss)),
             T, Tail(ss))

\* AnimTimeline.removeSequences on the timeline T
removeSequencesFrom(T, ss) ==
    /\ lineage' = RemoveFromLoop(lineage, T, ss)
    /\ UNCHANGED playbackVars

\* for (const sequence of removalList) sequence.removeLineage()
RECURSIVE sequencesRemoveLineage(_, _)
sequencesRemoveLineage(l, ss) ==
    IF ss = <<>> THEN l
    ELSE sequencesRemoveLineage(sequenceRemoveLineage(l, Head(ss)), Tail(ss))

\* AnimTimeline.removeSequencesAt on the timeline T
removeSequencesAtFrom(T, startIndex, endIndex) ==
    /\ lineage' =
          [sequencesRemoveLineage(
               [lineage EXCEPT !.sequences[T] = SpliceOut(@, startIndex, endIndex - startIndex)],
               SubSeq(lineage.sequences[T], startIndex + 1,
                      Min(endIndex, Len(lineage.sequences[T]))))
              EXCEPT !.result = "ok"]
    /\ UNCHANGED playbackVars

InitLineage ==
    /\ ClipIdle
    /\ animClips = <<>>
    /\ fullStartTime = <<>>
    /\ groupings = NoGroupings
    /\ RunIdle
    /\ TimelineIdle
    /\ FinishIdle
    /\ StructureIdle

\* the calls that add clips to sequences and sequences to timelines
NextClipLineage ==
    \/ \E S \in Sequences, cs \in ListsOf(Clips) : addClipsTo(S, cs)
    \/ \E S \in Sequences, index \in 0..1, cs \in ListsOf(Clips) : addClipsAtIn(S, index, cs)
    \/ \E T \in Timelines, ss \in ListsOf(Sequences) : addSequencesTo(T, ss)

SpecClipLineage == InitLineage /\ [][NextClipLineage]_vars

\* the calls that add sequences to timelines and remove them
NextSequenceLineage ==
    \/ \E T \in Timelines, ss \in ListsOf(Sequences) : addSequencesTo(T, ss)
    \/ \E T \in Timelines, index \in 0..1, ss \in ListsOf(Sequences) :
          addSequencesAtIn(T, index, ss)
    \/ \E T \in Timelines, ss \in ListsOf(Sequences) : removeSequencesFrom(T, ss)
    \/ \E T \in Timelines, startIndex \in 0..1, count \in 1..2 :
          removeSequencesAtFrom(T, startIndex, startIndex + count)

\* the clips of a list that the owner gives to S, in the order of the list
RECURSIVE OwnedBy(_, _, _)
OwnedBy(owner, S, cs) ==
    IF cs = <<>> THEN <<>>
    ELSE (IF owner[Head(cs)] = S THEN <<Head(cs)>> ELSE <<>>) \o OwnedBy(owner, S, Tail(cs))

\* sequences constructed with clips (the constructor passes them to addClips),
\* every clip given to one sequence at most
InitSequenceLineage ==
    /\ ClipIdle
    /\ animClips = <<>>
    /\ fullStartTime = <<>>
    /\ groupings = NoGroupings
    /\ RunIdle
    /\ TimelineIdle
    /\ FinishIdle
    /\ \E owner \in [Clips -> Sequences \cup {undefined}] :
          lineage = [NoLineage EXCEPT
                        !.clips = [S \in Sequences |-> OwnedBy(owner, S, <<"c1", "c2">>)],
                        !.clipSequence = owner]

SpecSequenceLineage == InitSequenceLineage /\ [][NextSequenceLineage]_vars

\* S's clip list contains c / T's sequence list contains S
ContainsClip(S, c) == \E k \in 1..Len(lineage.clips[S]) : lineage.clips[S][k] = c
ContainsSequence(T, S) == \E k \in 1..Len(lineage.sequences[T]) : lineage.sequences[T][k] = S

\* ---------------------------------------------------------------------------
\* One clip: its flags inProgress / isRunning / isPaused under play, rewind,
\* pause, unpause, finish, the hooks of its phases and the pause of its root.
\* The host animation runs its three phases in order while it is not paused;
\* a clip that is part of a sequence gets its calls from the sequence.
\* ---------------------------------------------------------------------------

\* everything but the clip
notClipVars == <<commitVars, runVars, finVars, animSequences, loadedSeqIndex,
                 inProgressSequences, isAnimating, isJumping, isPaused, skippingOn,
                 stepCall, jumpCall, lastEvent, callsMade, structureVars>>

\* AnimClip.animate(direction), skipping being this._parentSequence?.skippingOn
clipAnimate(c, direction, skipping) ==
    IF c.inProgress THEN c
    ELSE [c EXCEPT !.direction = direction,
                   !.inProgress = TRUE,
                   !.isRunning = TRUE,
                   !.phase = "delay",
                   !.finishing = skipping,
                   !.hostPaused = (c.parent = "sequence" /\ c.parentPaused),
                   !.settled = "pending"]

\* AnimClip.pause with the flags it must leave alone
clipPaused_stillRunning(c) ==
    IF c.isRunning THEN [c EXCEPT !.isPaused = TRUE, !.hostPaused = TRUE] ELSE c

\* AnimClip.pause
clipPaused(c) ==
    IF c.isRunning
    THEN [c EXCEPT !.isPaused = TRUE, !.isRunning = FALSE, !.hostPaused = TRUE]
    ELSE c

\* AnimClip.unpause
clipUnpaused(c) ==
    IF c.isPaused
    THEN [c EXCEPT !.isPaused = FALSE, !.isRunning = TRUE, !.hostPaused = FALSE]
    ELSE c

\* AnimClip.play / AnimClip.rewind
clipPlay(direction) ==
    /\ \E skipping \in BOOLEAN :
          /\ skipping => clip.parent = "sequence"
          /\ clip' = clipAnimate(clip, direction, skipping)
    /\ UNCHANGED notClipVars

clipPause ==
    /\ clip' = clipPaused(clip)
    /\ UNCHANGED notClipVars

clipUnpause ==
    /\ clip' = clipUnpaused(clip)
    /\ UNCHANGED notClipVars

\* AnimClip.finish: nothing while paused; a clip not in progress is first
\* played in the direction of its animation; then animation.finish(), after
\* which a host animation that was paused may or may not stay so
clipFinish ==
    /\ IF clip.isPaused THEN UNCHANGED clip
       ELSE \E hostPaused \in {FALSE, clipAnimate(clip, clip.direction, FALSE).hostPaused} :
               clip' = [clipAnimate(clip, clip.direction, FALSE)
                           EXCEPT !.finishing = TRUE, !.hostPaused = hostPaused]
    /\ UNCHANGED notClipVars

\* reject(err) in the catch of a hook: the promise rejects once, its catch
\* handler (line 1564) is queued
clipRejected(c) ==
    IF c.settled = "pending" THEN [c EXCEPT !.settled = "rejected", !.catchPending = TRUE]
    ELSE c

\* animation.onDelayFinish
clipDelayFinish ==
    /\ clip.phase = "delay"
    /\ ~clip.hostPaused
    /\ clip' = [(IF clip.hookThrows = "delay" THEN clipRejected(clip) ELSE clip)
                   EXCEPT !.phase = "active"]
    /\ UNCHANGED notClipVars

\* animation.onActiveFinish
clipActiveFinish ==
    /\ clip.phase = "active"
    /\ ~clip.hostPaused
    /\ clip' = [(IF clip.hookThrows = "active" THEN clipRejected(clip) ELSE clip)
                   EXCEPT !.phase = "endDelay"]
    /\ UNCHANGED notClipVars

\* animation.onEndDelayFinish
clipEndDelayFinish ==
    /\ clip.phase = "endDelay"
    /\ ~clip.hostPaused
    /\ clip' = [clip EXCEPT !.inProgress = FALSE,
                            !.isRunning = FALSE,
                            !.phase = "none",
                            !.finishing = FALSE,
                            !.settled = IF @ = "pending" THEN "resolved" ELSE @]
    /\ UNCHANGED notClipVars

\* AnimSequence.pause, as far as the clip sees it: the sequence is paused and
\* its clips in progress are
sequencePaused(c) ==
    IF c.inProgress THEN [clipPaused(c) EXCEPT !.parentPaused = TRUE]
    ELSE [c EXCEPT !.parentPaused = TRUE]

\* the catch handler of animate's promise: this.root.pause()
clipCatch ==
    /\ clip.catchPending
    /\ clip' = [(IF clip.parent = "sequence" THEN sequencePaused(clip) ELSE clipPaused(clip))
                   EXCEPT !.catchPending = FALSE]
    /\ UNCHANGED notClipVars

\* the parent sequence is paused by its user or its timeline
parentPause ==
    /\ clip.parent = "sequence"
    /\ ~clip.parentPaused
    /\ clip' = sequencePaused(clip)
    /\ UNCHANGED notClipVars

\* the parent sequence is unpaused
parentUnpause ==
    /\ clip.parent = "sequence"
    /\ clip.parentPaused
    /\ clip' = [(IF clip.inProgress THEN clipUnpaused(clip) ELSE clip)
                   EXCEPT !.parentPaused = FALSE]
    /\ UNCHANGED notClipVars

InitClip ==
    /\ animClips = <<>>
    /\ fullStartTime = <<>>
    /\ groupings = NoGroupings
    /\ RunIdle
    /\ TimelineIdle
    /\ FinishIdle
    /\ StructureIdle
    /\ \E parent \in {"none", "sequence"}, hookThrows \in {"none", "delay", "active"} :
          clip = NewClip(parent, hookThrows)

NextClip ==
    \/ \E direction \in Directions : clipPlay(direction)
    \/ clipPause
    \/ clipUnpause
    \/ clipFinish
    \/ clipDelayFinish
    \/ clipActiveFinish
    \/ clipEndDelayFinish
    \/ clipCatch
    \/ parentPause
    \/ parentUnpause

SpecClip == InitClip /\ [][NextClip]_vars

\* ---------------------------------------------------------------------------
\* Claims about structure
\* ---------------------------------------------------------------------------

\* the timeline of the clip's parent sequence, undefined without a parent
TimelineOfParent(c) ==
    IF lineage.clipSequence[c] = undefined THEN undefined
    ELSE lineage.seqTimeline[lineage.clipSequence[c]]

\* C27: after any calls of addClips / addClipsAt on sequences and of
\* addSequences on timelines, a clip's parentSequence is S exactly when the
\* clip list of S contains the clip (a clip is in one sequence at most and is
\* never reparented), and the clip's parentTimeline is the parentTimeline of
\* its parentSequence.
C27_ClipLineage ==
    \A c \in Clips :
        /\ \A S \in Sequences : (lineage.clipSequence[c] = S) <=> ContainsClip(S, c)
        /\ lineage.clipTimeline[c] = TimelineOfParent(c)

\* C28: after any calls of addSequences / addSequencesAt / removeSequences /
\* removeSequencesAt, those that throw InvalidChildError included, a sequence
\* is in one timeline at most and its parentTimeline is T exactly when the
\* sequence list of T contains it; a call that adds a sequence which has a
\* parent timeline is rejected with InvalidChildError.
C28_SequenceLineage ==
    [][ /\ \A S \in Sequences :
              /\ Cardinality({T \in Timelines : ContainsSequence(T, S)}') <= 1
              /\ \A T \in Timelines :
                    (lineage'.seqTimeline[S] = T) <=> ContainsSequence(T, S)'
        /\ \A T \in Timelines, ss \in ListsOf(Sequences) :
              ( /\ \E k \in 1..Len(ss) : lineage.seqTimeline[ss[k]] # undefined
                /\ \/ addSequencesTo(T, ss)
                   \/ \E index \in 0..1 : addSequencesAtIn(T, index, ss) )
               => /\ lineage'.result = "InvalidChildError"
                  /\ lineage'.sequences = lineage.sequences ]_vars

\* ---------------------------------------------------------------------------
\* Claims about the flags of a clip
\* ---------------------------------------------------------------------------

\* C29: in every state a clip reaches through play, rewind, pause, unpause,
\* finish, the errors of its hooks and the ends of its phases, a clip in
\* progress has exactly one of isRunning and isPaused.
C29_RunningXorPaused ==
    clip.inProgress => (clip.isRunning /\ ~clip.isPaused) \/ (~clip.isRunning /\ clip.isPaused)

\* the hook of the active phase has thrown and the pause of the root has
\* paused the clip in its end delay
C29_Witness ==
    /\ clip.inProgress /\ clip.isPaused /\ ~clip.isRunning
    /\ clip.settled = "rejected" /\ ~clip.catchPending
    /\ clip.phase = "endDelay"

\* ---------------------------------------------------------------------------
\* Claims about the groups of commit
\* ---------------------------------------------------------------------------

\* the lists of a list of lists, one after the other
RECURSIVE Concatenation(_)
Concatenation(lists) ==
    IF lists = <<>> THEN <<>> ELSE Head(lists) \o Concatenation(Tail(lists))

\* list is a permutation of the clips of group g
PermutationOfGroup(list, g) ==
    /\ Len(list) = Len(groupings.forwardGroupings[g])
    /\ {list[k] : k \in 1..Len(list)} = ClipsOfGroup(g)

\* commit() has run
WasCommitted == Len(groupings.activeFinishOrder) > 0

\* C30: commit() partitions the clip list, in insertion order, into
\* consecutive groups: a new group begins at a clip after the first exactly when
\* that clip has startsWithPrevious = false and the clip before it has
\* startsNextClipToo = false; the forward groupings, one after the other, are
\* the clip list; and activeFinishOrder, endDelayFinishOrder and
\* backwardActiveFinishOrder each hold, group by group, a permutation of the
\* clips of that group.
C30_CommitPartition ==
    WasCommitted =>
        LET fg == groupings.forwardGroupings
            n == Len(animClips)
        IN  /\ Concatenation(fg) = [k \in 1..n |-> k]
            /\ \A g \in 2..Len(fg) : fg[g] # <<>>
            /\ \A i \in 2..n :
                  (\E g \in 2..Len(fg) : fg[g][1] = i)
                     <=> (~animClips[i].startsWithPrevious /\ ~animClips[i - 1].startsNextClipToo)
            /\ Len(groupings.activeFinishOrder) = Len(fg)
            /\ Len(groupings.endDelayFinishOrder) = Len(fg)
            /\ Len(groupings.backwardActiveFinishOrder) = Len(fg)
            /\ \A g \in 1..Len(fg) :
                  /\ PermutationOfGroup(groupings.activeFinishOrder[g], g)
                  /\ PermutationOfGroup(groupings.endDelayFinishOrder[g], g)
                  /\ PermutationOfGroup(groupings.backwardActiveFinishOrder[g], g)

\* three clips committed: the second joins the first through the first's
\* startsNextClipToo and ends its active phase before it, the third begins a group
C30_Witness ==
    /\ WasCommitted
    /\ Len(animClips) = 3
    /\ animClips[1].startsNextClipToo /\ ~animClips[2].startsWithPrevious
    /\ groupings.forwardGroupings = << <<1, 2>>, <<3>> >>
    /\ groupings.activeFinishOrder[1] = <<2, 1>>

\* ---------------------------------------------------------------------------
\* Claims about a sequence without clips
\* ---------------------------------------------------------------------------

\* C36: play() of a sequence that holds no clip completes: once play() was
\* called the call is done, or the rewind() that followed it is, and the
\* sequence is not in progress and is finished, with wasPlayed after play()
\* and wasRewound after rewind().
C36_EmptySequencePlays ==
    (animClips = <<>> /\ playPc # NoCall) =>
        /\ playPc.at \in {"done", "rewound"}
        /\ ~seqStatus.inProgress
        /\ seqStatus.isFinished
        /\ playPc.at = "done" => seqStatus.wasPlayed
        /\ playPc.at = "rewound" => seqStatus.wasRewound

\* ---------------------------------------------------------------------------
\* Claims about the search of a tag
\* ---------------------------------------------------------------------------

\* the indices whose sequence the loops of lines 1113-1118 read: from
\* fromIndex upwards to the end of the list, or from fromIndex downwards to 0,
\* up to the first sequence that matches
Inspected(tag, search, searchOffset) ==
    LET from == fromIndex(search, searchOffset)
        Matches(i) == i < numSequences /\ sequenceMatchesTag(animSequences[i + 1], tag)
    IN  IF isBackwardSearch(search)
        THEN {i \in 0..from :
                 \/ i = from
                 \/ from < numSequences /\ \A j \in (i + 1)..from : ~Matches(j)}
        ELSE {i \in from..(numSequences - 1) : \A j \in from..(i - 1) : ~Matches(j)}

\* C40: for every search mode, loaded index, length of the timeline (0
\* included) and searchOffset, the search of jumpToSequenceTag reads only
\* indices within 0..numSequences-1, and when none of the sequences it reads
\* matches, the call fails with the error of a tag not found and leaves the
\* timeline as it was.
C40_SearchStaysInList ==
    [][callsMade = 0 =>
          \A a \in {t \in TagJumpArguments : Truthy(t.tag)} :
             LET inspected == Inspected(a.tag, a.search, a.searchOffset)
             IN  \/ /\ inspected \subseteq 0..(numSequences - 1)
                    /\ (\A i \in inspected : ~sequenceMatchesTag(animSequences[i + 1], a.tag))
                          => /\ lastEvent'.result = "Error: tag not found"
                             /\ UNCHANGED tlState
                 \/ ~jumpToSequenceTag(a.tag, a.search, a.searchOffset, a.targetOffset,
                                       a.autoplayDetection)]_vars

\* ---------------------------------------------------------------------------
\* Claims about structure calls that throw
\* ---------------------------------------------------------------------------

\* C39: a structure call on a timeline that throws has no effect: the
\* sequence list of every timeline and the parentTimeline of every sequence
\* are as they were before the call, also when several sequences are passed
\* and only a later one is the invalid one.
C39_ThrowingCallChangesNothing ==
    [][lineage'.result \notin {"none", "ok", "warn"} =>
          /\ lineage'.sequences = lineage.sequences
          /\ lineage'.seqTimeline = lineage.seqTimeline]_vars

\* ---------------------------------------------------------------------------
\* Claims about the calls that drive a timeline
\* ---------------------------------------------------------------------------

\* C33: a step() made while a jump is in flight (isJumping) is rejected and
\* moves neither loadedSeqIndex nor the set of sequences in progress, so that
\* one operation drives the timeline at a time.
C33_StepDuringJumpRejected ==
    [][isJumping =>
          \A direction \in Directions :
             \/ /\ lastEvent'.op = "step"
                /\ lastEvent'.result \notin {"none", "ok", "resolved", "warn"}
                /\ UNCHANGED <<loadedSeqIndex, inProgressSequences>>
             \/ ~step(direction)]_vars

\* the play() or rewind() of the sequence at index p rejects: a hook of one of
\* its clips has thrown, the catch handler of the clip (AnimTimeline.ts lines
\* 1564-1567) has paused the clip's root, the timeline, and the rejection
\* passes through stepForward / stepBackward to the step() or jumpTo() that
\* awaits the sequence, which has no handler for it
sequenceRejects(p) ==
    LET stepAwaits == stepCall.at = "await" /\ stepCall.pos = p
        jumpAwaits == jumpCall.at = "stepping" /\ jumpCall.pos = p
    IN  /\ ~Halted
        /\ ~MicrotaskPending
        /\ animSequences[p + 1].inProgress
        /\ animSequences[p + 1].isRunning
        /\ stepAwaits \/ jumpAwaits
        /\ isPaused' = TRUE
        /\ animSequences' = PauseInProgress(animSequences, inProgressSequences)
        /\ stepCall' = IF stepAwaits THEN NoStepCall ELSE stepCall
        /\ jumpCall' = IF jumpAwaits THEN NoJumpCall ELSE jumpCall
        /\ lastEvent' = Event(IF stepAwaits THEN "step" ELSE "jumpTo", "rejected: clip")
        /\ UNCHANGED <<loadedSeqIndex, inProgressSequences, isAnimating, isJumping,
                       skippingOn>>
        /\ UNCHANGED <<seqVars, callsMade>>

\* a jump or a step, then steps, over sequences whose clips may fail
NextReject ==
    \/ NextJump
    \/ \E p \in 0..(numSequences - 1) : sequenceRejects(p)

SpecReject == InitJump /\ [][NextReject]_vars

\* C34: whenever no step() and no jump of a timeline is pending, each of
\* their promises having resolved or rejected (the rejection that a failing
\* clip causes included), isAnimating and isJumping are false and no sequence
\* is in the set of sequences in progress.
C34_SettledMeansIdle ==
    (stepCall = NoStepCall /\ jumpCall = NoJumpCall) =>
        /\ ~isAnimating
        /\ ~isJumping
        /\ inProgressSequences = {}

\* ---------------------------------------------------------------------------
\* Claims about the sequences of a timeline that are called directly
\* ---------------------------------------------------------------------------

\* play(), rewind() or finish() called by the user on the sequence at index p
\* of the timeline: none of the three looks at the sequence's parent timeline
\* (AnimSequence.ts lines 390-391, 457-458, 556-563); the call is made while
\* no step() and no jump is pending
sequenceCall(p, call) ==
    /\ CallAllowed
    /\ stepCall = NoStepCall /\ jumpCall = NoJumpCall
    /\ animSequences' =
          [animSequences EXCEPT ![p + 1] = IF call = "play" THEN sequencePlay(@)
                                          ELSE IF call = "rewind" THEN sequenceRewind(@)
                                          ELSE sequenceFinish(@)]
    /\ lastEvent' = Event("none", "none")
    /\ UNCHANGED <<loadedSeqIndex, inProgressSequences, isAnimating, isJumping, isPaused,
                   skippingOn, stepCall, jumpCall>>
    /\ UNCHANGED seqVars

\* a jump or a step, steps, and direct calls on the sequences
NextDirect ==
    \/ NextJump
    \/ \E p \in 0..(numSequences - 1), call \in {"play", "rewind", "finish"} :
          sequenceCall(p, call)

SpecDirect == InitJump /\ [][NextDirect]_vars

\* C38: whenever the timeline is idle, neither animating nor jumping, the
\* sequence at index i was played (wasPlayed) exactly when i is below
\* loadedSeqIndex, whatever steps, jumps and direct play() / rewind() /
\* finish() calls on its sequences were made.
C38_PlayedIffBelowLoadedIndex ==
    (~isAnimating /\ ~isJumping) =>
        \A i \in 0..(numSequences - 1) :
            animSequences[i + 1].wasPlayed <=> i < loadedSeqIndex

\* ---------------------------------------------------------------------------
\* Claims about the flags of a sequence
\* ---------------------------------------------------------------------------

\* C32: usingFinish is true only while the sequence is using finish(): in
\* every reachable state a sequence with usingFinish is in progress, so that
\* no finish() of a later run finds the flag left set by an earlier call.
C32_UsingFinishOnlyInProgress ==
    seqStatus.usingFinish => seqStatus.inProgress

(***************************************************************************)
(* SpecReaction: a forward run with pause() called from promise reactions  *)
(*                                                                         *)
(* SpecCtl has the user call pause() between two tasks, when every         *)
(* continuation has run.  A reaction of the user (a then() of a clip's     *)
(* time promise, a microtask queued by a hook) runs before the             *)
(* continuation of play(), whose await sits behind several reactions: here *)
(* pause() may also arrive when the promise play() awaits has settled and  *)
(* play() has not resumed, the last clip of the group having left the set  *)
(* of clips in progress.                                                   *)
(***************************************************************************)
\* AnimSequence.pause (lines 529-534) called while the continuation of play()
\* is pending
pauseFromReaction ==
    /\ PlayReady
    /\ seqStatus.isRunning
    /\ seqStatus' = pause_status(seqStatus)
    /\ clipPos' = pause_clips(seqStatus, clipPos)
    /\ UNCHANGED <<commitVars, inProgressClips, integrityBlocks, playPc>>
    /\ UNCHANGED <<finVars, tlVars>>

NextReaction == NextCtl \/ pauseFromReaction

SpecReaction == InitCtl /\ [][NextReaction]_vars

\* C31: in every reachable state of a sequence, under every interleaving of
\* play, pause, unpause, finish and clip completions, a pause() that arrives
\* when no clip is in progress included: isRunning implies inProgress,
\* isPaused implies inProgress, isRunning and isPaused are never both true,
\* and isFinished implies not inProgress.
C31_StatusFlagsConsistent ==
    /\ seqStatus.isRunning => seqStatus.inProgress
    /\ seqStatus.isPaused => seqStatus.inProgress
    /\ ~(seqStatus.isRunning /\ seqStatus.isPaused)
    /\ seqStatus.isFinished => ~seqStatus.inProgress

\* C35: once a paused sequence is unpaused, every clip in its set of clips in
\* progress is running again, a clip launched while the sequence was paused
\* included: no host animation of a clip in progress is left paused.
C35_UnpauseResumesEveryClip ==
    (~seqStatus.isPaused /\ hooks.rejected = {}) =>
        \A c \in inProgressClips : clipPos[c] # "pausedAtLaunch"

(***************************************************************************)
(* LiveRun: play() and rewind() under fair host animations                 *)
(*                                                                         *)
(* The runs of SpecRun over clips of every sequencing flag and of every    *)
(* timing of ClipConfigs at the default playback rate.  The host           *)
(* animations and the continuations of play() and rewind() make progress;  *)
(* the user is under no obligation to call play() or rewind().  The        *)
(* continuation that launches a clip in the backward run is held to make   *)
(* progress only once the point it awaits has certainly been passed.       *)
(***************************************************************************)
LiveClipConfigs == {c \in ClipConfigs : c.playbackRate = 1}

\* lines 494-501: the point of the run of next that rewind() awaits before it
\* launches curr has been passed, wherever inside its phase the point lies
RewindPointPassed(curr, next) ==
    LET t == fullFinishTime(animClips[curr], fullStartTime[curr])
    IN  IF t <= fullStartTime[next]
        THEN clipPos[next] = "rewound"
        ELSE IF t >= fullFinishTime(animClips[next], fullStartTime[next])
        THEN RwLaunched(next)
        ELSE IF t >= activeFinishTime(animClips[next], fullStartTime[next])
        THEN clipPos[next] \in {"rwActivePhase", "rwActiveBegin", "rwDelayPhase", "rewound"}
        ELSE IF t > activeStartTime(animClips[next], fullStartTime[next])
        THEN clipPos[next] \in {"rwActiveBegin", "rwDelayPhase", "rewound"}
        ELSE clipPos[next] = "rewound"

\* a step of a host animation or the continuation of the pending call
RunProgress ==
    \/ playLaunchNext
    \/ playNextGroup
    \/ playFinish
    \/ /\ playPc.at = "rwAwaitNext"
       /\ RewindPointPassed(groupings.endDelayFinishOrder[playPc.i][playPc.j],
                            groupings.endDelayFinishOrder[playPc.i][playPc.j + 1])
       /\ rewindLaunchNext
    \/ rewindNextGroup
    \/ rewindFinish
    \/ \E c \in ClipIds : DelayFinish(c)
    \/ \E c \in ClipIds : ActiveReachEnd(c)
    \/ \E c \in ClipIds : ActiveFinish(c)
    \/ \E c \in ClipIds : EndDelayFinish(c)
    \/ \E c \in ClipIds : RwEndDelayFinish(c)
    \/ \E c \in ClipIds : RwActiveReachBegin(c)
    \/ \E c \in ClipIds : RwActiveFinish(c)
    \/ \E c \in ClipIds : RwDelayFinish(c)

InitLive ==
    /\ ClipIdle
    /\ StructureIdle
    /\ animClips \in UNION {[1..n -> LiveClipConfigs] : n \in 0..MaxClips}
    \* the two flags commit() never reads are left at their default
    /\ animClips # <<>> =>
          /\ ~animClips[1].startsWithPrevious
          /\ ~animClips[Len(animClips)].startsNextClipToo
    /\ fullStartTime = [k \in ClipIds |-> NaN]
    /\ groupings = NoGroupings
    /\ seqStatus = NewSeqStatus
    /\ inProgressClips = {}
    /\ clipPos = [k \in ClipIds |-> "idle"]
    /\ integrityBlocks = [k \in ClipIds |-> {}]
    /\ playPc = NoCall
    /\ TimelineIdle
    /\ FinishIdle

LiveRun == InitLive /\ [][NextRun]_vars /\ WF_vars(RunProgress)

\* C37: without roadblocks, pause calls and hook errors every play() and every
\* following rewind() of a sequence eventually completes, whatever its list
\* of clips and however the host animations are scheduled: a run in progress
\* leads to a sequence that is no longer in progress.
C37_EveryRunCompletes ==
    seqStatus.inProgress ~> ~seqStatus.inProgress

====
